---- MODULE Spec2Model ----
(***************************************************************************)
(* Live multimedia session orchestrator (components/LiveTutor.tsx):        *)
(* transcript assembler, inbound playback scheduler, session lifecycle.    *)
(***************************************************************************)
EXTENDS Integers, Sequences, FiniteSets, TLC

(* ------------------------------ bounds --------------------------------- *)
\* characters a transcription delta is made of
Chars == {"a", "b"}
\* total number of characters the log may hold when updateTranscript is fed directly
MaxFeedChars == 3
\* total number of characters the log may hold in the replay (two-run) specification
MaxReplayChars == 2
\* last value of the wall clock (Date.now)
MaxNow == 1
\* number of startSession calls in one run
MaxStarts == 2
\* number of MediaStreams getUserMedia hands out in one run
MaxStreams == 3
\* number of stopSession calls in flight at once
MaxStops == 2
\* longest decoded audio buffer, in clock ticks
MaxDuration == 2
\* last value of the output clock
MaxClock == 2
\* number of audio payloads received in one run
MaxAudio == 3
\* number of interruptions received in one run
MaxInterrupts == 1
\* total number of characters the log may hold when fed by the channel and the user
MaxChars == 3
\* number of entries the saved-session store may hold
MaxHistory == 2
\* number of window.setTimeout calls the insight effect makes in one run
MaxTimeouts == 4

Roles == {"user", "model"}

VARIABLES
  messages,     \* useState<ChatMessage[]>: the message log
  dateNow,      \* Date.now(), the wall clock
  lastCall,     \* history: the last updateTranscript call (role "none" before the first): its arguments,
                \* the log it was applied to, whether the call before it had the same arguments,
                \* whether a turn-complete event was handled between the call before it and
                \* it (afterTurn), and whether one was handled since it (ended)
  replay,       \* the message log of a second, independent run fed the same tuples
  replayNow,    \* the wall clock of the second run
  connectionState,   \* useState<ConnectionState>
  error,             \* useState<string | null>: TRUE when an error text is set
  sessionPromiseRef, \* 0 for null, else the startSession call whose channel promise it holds
  inputContextRef,   \* "null", or the state of the AudioContext it refers to
  outputContextRef,  \* "null", or the state of the AudioContext it refers to
  frameIntervalRef,  \* 0 for null, else the startSession call whose channel promise the
                     \* interval callback sends to
  frameTimer,        \* the period (ms) and JPEG quality of the interval frameIntervalRef holds
  frameTimers,       \* every interval set by startVideoStreaming and not cleared
  starts,            \* the startSession calls made so far: position, captured stream, channel
                     \* (opened: its open event was handled, so its promise has resolved;
                     \* cancelled: history, stopSession was called while it was suspended;
                     \* from: history, the state it was called in)
  stops,             \* the stopSession calls in flight
  switches,          \* the switchCamera calls in flight
  streams,           \* every MediaStream returned by getUserMedia: the state of its tracks
  srcObject,         \* videoRef.current.srcObject: 0 for null, else an index into streams
  lastDone,          \* history: "stop" right after a step in which a stopSession call ran to its
                     \* end, "interrupted" right after a step that handled an interruption,
                     \* "start" right after a step that called startSession, "quality"
                     \* right after a step that set the adaptive quality state, "save"
                     \* right after a press of the save button
  nextStartTimeRef,  \* the playback timeline cursor
  currentTime,       \* outputContextRef.current.currentTime, the output clock
  activeSourcesRef,  \* Set<AudioBufferSourceNode>: the ids of the sources in the set
  sources,           \* every started source whose 'ended' event has not fired yet
  isBotSpeaking,     \* useState<boolean>
  decoding,          \* the onmessage calls suspended at "await decodeAudioData"
  played,            \* history: one record per source.start call, in call order
  arrivals,          \* history: number of audio payloads handled so far
  interruptions,     \* history: number of interruptions handled so far
  interruptedAt,     \* history: value of arrivals when the last interruption was handled
  history,           \* localStorage 'tutoring_history': the saved sessions, newest first
                     \* (session: history, the number of startSession calls made when the
                     \* entry was created)
  currentSessionIdRef, \* <<>> for null, else the id of the saved session the log belongs to
  lastStop,          \* history: of the stopSession call that ended last, whether it was made
                     \* right after another one ended, and the store, the message log and
                     \* the session id it was made on
  inputCtxId,        \* the startSession call that created the context inputContextRef holds
  micProcessors,     \* the ScriptProcessorNodes whose context runs: target channel, context
  pending,           \* chunks on their way to session.send*: canvas.toBlob callbacks not run
                     \* yet, and then-callbacks of a channel promise that has not resolved
  lastSent,          \* history: the last chunk handed to the channel (kind "none" before)
  cursorWithout,     \* history: the timeline cursor of the same run with every audio payload
                     \* that does not decode left out
  malformed,         \* history: number of audio payloads arrived that do not decode
  lastTool,          \* history: the last tool-call event handled: its channel, its function
                     \* calls and the function responses handed to session.sendToolResponse
  diagramData,       \* useState<DiagramData | null>: <<>> for null, else the arguments shown
  videoFrameRate,    \* useState<number>, in half frames per second (4 is 2 FPS)
  videoQuality,      \* useState<number>, the JPEG quality in hundredths (60 is 0.6)
  isAutoQuality,     \* useState<boolean>
  networkStatus,     \* useState<'good' | 'moderate' | 'poor' | 'unknown'>
  connection,        \* navigator.connection: <<>> for undefined, else <<downlink, rtt>>, the
                     \* downlink in tenths of Mb/s and the rtt in ms
  viewMode,          \* Transcript, useState<ViewMode>: "live" or "history_list"
  savedSessions,     \* Transcript, useState<SavedSession[]>: the store as loadHistory read it
  insightData,       \* useState<{knowledge, eye}>: <<>> for null, else the captured clause
  scannerActive,     \* useState<boolean>: the highlight flag
  showBlurWarning,   \* useState<boolean>: the blur-warning flag
  scannerTimeoutRef, \* 0 for null, else the handle of the last highlight timeout set
  blurTimeoutRef,    \* 0 for null, else the handle of the last blur timeout set
  timeouts,          \* the window.setTimeout timers pending: handle, flag they clear, and
                     \* the seconds left until they fire
  timeoutSeq,        \* the last handle window.setTimeout returned
  isMicMuted,        \* useState<boolean>: the microphone-mute flag
  sinceBlur          \* history: seconds since the last run of the insight effect that matched
                     \* the blur pattern (BlurDelay + 1 for none, or longer ago)

transcriptVars == <<messages, dateNow, lastCall>>
replayVars == <<replay, replayNow>>
connVars == <<connectionState, error, sessionPromiseRef, starts>>
audioCtxVars == <<inputContextRef, outputContextRef, frameIntervalRef, frameTimer, frameTimers>>
captureVars == <<streams, srcObject, switches>>
panelVars == <<viewMode, savedSessions>>
storeVars == <<history, currentSessionIdRef, lastStop, panelVars>>
micVars == <<inputCtxId, micProcessors>>
sendVars == <<pending, lastSent>>
insightVars == <<insightData, scannerActive, showBlurWarning>>
timeoutVars == <<scannerTimeoutRef, blurTimeoutRef, timeouts, timeoutSeq, sinceBlur>>
sessionVars == <<connVars, audioCtxVars, captureVars, stops, lastDone, storeVars, micVars,
                 insightVars>>
schedVars == <<nextStartTimeRef, currentTime, activeSourcesRef, sources, isBotSpeaking>>
playHistVars == <<decoding, played, arrivals, interruptions, interruptedAt>>
shadowVars == <<cursorWithout, malformed>>
playbackVars == <<schedVars, playHistVars, shadowVars>>
toolVars == <<lastTool, diagramData>>
qualityVars == <<videoFrameRate, videoQuality, isAutoQuality, networkStatus, connection>>
auxVars == <<toolVars, qualityVars, timeoutVars, isMicMuted>>
vars == <<transcriptVars, replayVars, sessionVars, playbackVars, sendVars, auxVars>>

(* ------------------------------ helpers -------------------------------- *)
\* the text deltas drawn as inputs (a text is a sequence of characters): the empty
\* text and the one-character texts
Deltas == {<<>>} \cup {<<c>> : c \in Chars}

RECURSIVE TotalChars(_)
TotalChars(log) ==
  IF log = <<>> THEN 0 ELSE Len(Head(log).text) + TotalChars(Tail(log))

Digit(d) == CASE d = 0 -> "0" [] d = 1 -> "1" [] d = 2 -> "2" [] d = 3 -> "3" [] d = 4 -> "4"
              [] d = 5 -> "5" [] d = 6 -> "6" [] d = 7 -> "7" [] d = 8 -> "8" [] d = 9 -> "9"

\* Number.prototype.toString(): the decimal digits of n
RECURSIVE toString(_)
toString(n) == IF n < 10 THEN <<Digit(n)>> ELSE toString(n \div 10) \o <<Digit(n % 10)>>

(* ------------------------- transcript assembler ------------------------ *)
\* updateTranscript appending to an open last message whatever its role
updateTranscript_anyRole(prev, role, text, isFinal, now) ==
  LET lastMsg == prev[Len(prev)] IN
  IF Len(prev) > 0 /\ ~lastMsg.isComplete
  THEN LET updatedMsg == [lastMsg EXCEPT !.text = lastMsg.text \o text, !.isComplete = isFinal]
       IN SubSeq(prev, 1, Len(prev) - 1) \o <<updatedMsg>>
  ELSE IF text = <<>> THEN prev
  ELSE prev \o <<[id |-> toString(now), role |-> role, text |-> text,
                  isComplete |-> isFinal, timestamp |-> now]>>

\* updateTranscript leaving isComplete of the updated message as it was
updateTranscript_keepOpen(prev, role, text, isFinal, now) ==
  LET lastMsg == prev[Len(prev)] IN
  IF Len(prev) > 0 /\ lastMsg.role = role /\ ~lastMsg.isComplete
  THEN LET updatedMsg == [lastMsg EXCEPT !.text = lastMsg.text \o text]
       IN SubSeq(prev, 1, Len(prev) - 1) \o <<updatedMsg>>
  ELSE IF text = <<>> THEN prev
  ELSE prev \o <<[id |-> toString(now), role |-> role, text |-> text,
                  isComplete |-> isFinal, timestamp |-> now]>>

\* updateTranscript appending in place only within the clock reading the message was made at
updateTranscript_sameTick(prev, role, text, isFinal, now) ==
  LET lastMsg == prev[Len(prev)] IN
  IF Len(prev) > 0 /\ lastMsg.role = role /\ ~lastMsg.isComplete /\ lastMsg.timestamp = now
  THEN LET updatedMsg == [lastMsg EXCEPT !.text = lastMsg.text \o text, !.isComplete = isFinal]
       IN SubSeq(prev, 1, Len(prev) - 1) \o <<updatedMsg>>
  ELSE IF text = <<>> THEN prev
  ELSE prev \o <<[id |-> toString(now), role |-> role, text |-> text,
                  isComplete |-> isFinal, timestamp |-> now]>>

\* updateTranscript without the isComplete test on the last message
updateTranscript_ignoreComplete(prev, role, text, isFinal, now) ==
  LET lastMsg == prev[Len(prev)] IN
  IF Len(prev) > 0 /\ lastMsg.role = role
  THEN LET updatedMsg == [lastMsg EXCEPT !.text = lastMsg.text \o text, !.isComplete = isFinal]
       IN SubSeq(prev, 1, Len(prev) - 1) \o <<updatedMsg>>
  ELSE IF text = <<>> THEN prev
  ELSE prev \o <<[id |-> toString(now), role |-> role, text |-> text,
                  isComplete |-> isFinal, timestamp |-> now]>>

\* updateTranscript without the empty-text return
updateTranscript_noEmptyCheck(prev, role, text, isFinal, now) ==
  LET lastMsg == prev[Len(prev)] IN
  IF Len(prev) > 0 /\ lastMsg.role = role /\ ~lastMsg.isComplete
  THEN LET updatedMsg == [lastMsg EXCEPT !.text = lastMsg.text \o text, !.isComplete = isFinal]
       IN SubSeq(prev, 1, Len(prev) - 1) \o <<updatedMsg>>
  ELSE prev \o <<[id |-> toString(now), role |-> role, text |-> text,
                  isComplete |-> isFinal, timestamp |-> now]>>

\* the updater passed to setMessages by updateTranscript; now is the reading of Date.now()
updateTranscript(prev, role, text, isFinal, now) ==
  LET lastMsg == prev[Len(prev)] IN
  IF Len(prev) > 0 /\ lastMsg.role = role /\ ~lastMsg.isComplete
  THEN LET updatedMsg == [lastMsg EXCEPT !.text = lastMsg.text \o text, !.isComplete = isFinal]
       IN SubSeq(prev, 1, Len(prev) - 1) \o <<updatedMsg>>
  ELSE IF text = <<>> THEN prev
  ELSE prev \o <<[id |-> toString(now), role |-> role, text |-> text,
                  isComplete |-> isFinal, timestamp |-> now]>>

NoChunk ==
  [kind |-> "none", chan |-> 0, state |-> "none", chanState |-> "none", muted |-> FALSE]

\* insightData with nothing captured
NoInsight == [knowledge |-> <<>>, eye |-> <<>>]

\* the delays handed to window.setTimeout by the insight effect, in seconds
ScannerDelay == 5
BlurDelay == 6

NoTimer == [period |-> 0, quality |-> 0]

NoTool == [chan |-> 0, calls |-> <<>>, responses |-> <<>>]

NoCall ==
  [role |-> "none", text |-> <<>>, isFinal |-> FALSE, prev |-> <<>>, repeated |-> FALSE,
   afterTurn |-> FALSE, ended |-> FALSE]

\* the record of a call updateTranscript(role, text, isFinal) applied to the log prev,
\* when the call before it was last
CallAfter(last, role, text, isFinal, prev) ==
  [role |-> role, text |-> text, isFinal |-> isFinal, prev |-> prev,
   repeated |-> (last.role = role /\ last.text = text /\ last.isFinal = isFinal),
   afterTurn |-> last.ended, ended |-> FALSE]

Call(role, text, isFinal, prev) == CallAfter(lastCall, role, text, isFinal, prev)

\* the refs and the state other than the adaptive quality state, as constructed
InitSession ==
  /\ messages = <<>>
  /\ dateNow = 0
  /\ lastCall = NoCall
  /\ replay = <<>>
  /\ replayNow = 0
  /\ connectionState = "disconnected"
  /\ error = FALSE
  /\ sessionPromiseRef = 0
  /\ inputContextRef = "null"
  /\ outputContextRef = "null"
  /\ frameIntervalRef = 0
  /\ frameTimer = NoTimer
  /\ frameTimers = {}
  /\ starts = <<>>
  /\ stops = <<>>
  /\ switches = <<>>
  /\ streams = <<>>
  /\ srcObject = 0
  /\ lastDone = "none"
  /\ nextStartTimeRef = 0
  /\ currentTime = 0
  /\ activeSourcesRef = {}
  /\ sources = {}
  /\ isBotSpeaking = FALSE
  /\ decoding = {}
  /\ played = <<>>
  /\ arrivals = 0
  /\ interruptions = 0
  /\ interruptedAt = 0
  /\ history = <<>>
  /\ currentSessionIdRef = <<>>
  /\ lastStop = [again |-> FALSE, history |-> <<>>, currentMessages |-> <<>>,
                 sessionId |-> <<>>]
  /\ viewMode = "live"
  /\ savedSessions = <<>>
  /\ insightData = NoInsight
  /\ scannerActive = FALSE
  /\ showBlurWarning = FALSE
  /\ scannerTimeoutRef = 0
  /\ blurTimeoutRef = 0
  /\ timeouts = {}
  /\ timeoutSeq = 0
  /\ sinceBlur = BlurDelay + 1
  /\ isMicMuted = FALSE
  /\ inputCtxId = 0
  /\ micProcessors = {}
  /\ pending = {}
  /\ lastSent = NoChunk
  /\ cursorWithout = 0
  /\ malformed = 0
  /\ lastTool = NoTool
  /\ diagramData = <<>>

\* the downlink estimates (tenths of Mb/s) and round-trip times (ms) the browser reports
Downlinks == {10, 14, 15, 49, 50, 100}
Rtts == {50, 100, 150, 151, 500, 501}
Telemetry == {<<d, r>> : d \in Downlinks, r \in Rtts}

\* the values of the frame-rate slider: min 0.5, max 5, step 0.5
SliderRates == 1..10

\* updateQuality with "<=" in place of "<" in the downlink tests
updateQuality_inclusive(conn) ==
  LET downlink == conn[1]
      rtt == conn[2]
  IN IF downlink <= 15 \/ rtt > 500
     THEN [videoFrameRate |-> 1, videoQuality |-> 40, networkStatus |-> "poor"]
     ELSE IF downlink <= 50 \/ rtt > 150
     THEN [videoFrameRate |-> 3, videoQuality |-> 50, networkStatus |-> "moderate"]
     ELSE [videoFrameRate |-> 5, videoQuality |-> 65, networkStatus |-> "good"]

\* updateQuality(): the frame rate, JPEG quality and network status it sets for the
\* readings of the connection-information object
updateQuality(conn) ==
  LET downlink == conn[1]
      rtt == conn[2]
  IN IF downlink < 15 \/ rtt > 500
     THEN [videoFrameRate |-> 1, videoQuality |-> 40, networkStatus |-> "poor"]
     ELSE IF downlink < 50 \/ rtt > 150
     THEN [videoFrameRate |-> 3, videoQuality |-> 50, networkStatus |-> "moderate"]
     ELSE [videoFrameRate |-> 5, videoQuality |-> 65, networkStatus |-> "good"]

\* the network monitoring effect, run after the first render and whenever isAutoQuality
\* has changed: q is the quality state it finds
networkEffect(auto, conn, q) ==
  IF ~auto THEN [q EXCEPT !.networkStatus = "unknown"]
  ELSE IF conn = <<>> THEN [q EXCEPT !.networkStatus = "unknown"]
  ELSE updateQuality(conn)

\* the adaptive quality state as constructed
QualityDefaults == [videoFrameRate |-> 4, videoQuality |-> 60, networkStatus |-> "unknown"]

\* the component as mounted in a browser without the Network Information API: the
\* network monitoring effect leaves the defaults in place
Init ==
  /\ InitSession
  /\ connection = <<>>
  /\ isAutoQuality = TRUE
  /\ videoFrameRate = 4
  /\ videoQuality = 60
  /\ networkStatus = "unknown"

\* the component as mounted, the network monitoring effect run, in a browser whose
\* connection-information object is one of conns (<<>>: the browser has none)
InitWith(conns) ==
  /\ InitSession
  /\ connection \in conns
  /\ isAutoQuality = TRUE
  /\ LET q == networkEffect(TRUE, connection, QualityDefaults)
     IN /\ videoFrameRate = q.videoFrameRate
        /\ videoQuality = q.videoQuality
        /\ networkStatus = q.networkStatus

\* the wall clock advances
Tick ==
  /\ dateNow < MaxNow
  /\ dateNow' = dateNow + 1
  /\ UNCHANGED <<messages, lastCall, replayVars, auxVars, sessionVars, playbackVars, sendVars>>

\* one direct call updateTranscript(role, text, isFinal)
Feed(role, text, isFinal) ==
  /\ TotalChars(messages) + Len(text) <= MaxFeedChars
  /\ messages' = updateTranscript(messages, role, text, isFinal, dateNow)
  /\ lastCall' = Call(role, text, isFinal, messages)
  /\ UNCHANGED <<dateNow, replayVars, auxVars, sessionVars, playbackVars, sendVars>>

\* the second run's wall clock advances
TickReplay ==
  /\ replayNow < MaxNow
  /\ replayNow' = replayNow + 1
  /\ UNCHANGED <<transcriptVars, replay, auxVars, sessionVars, playbackVars, sendVars>>

\* the same tuple is fed to two independent runs, each reading its own clock
FeedBoth(role, text, isFinal) ==
  /\ TotalChars(messages) + Len(text) <= MaxReplayChars
  /\ messages' = updateTranscript(messages, role, text, isFinal, dateNow)
  /\ replay' = updateTranscript(replay, role, text, isFinal, replayNow)
  /\ UNCHANGED <<dateNow, lastCall, replayNow, auxVars, sessionVars, playbackVars, sendVars>>

(* --------------------------- session lifecycle ------------------------- *)
\* the fields startSession, stopSession and the channel callbacks read and write,
\* gathered so that the synchronous run of one handler can be composed step by step
Cur ==
  [connectionState |-> connectionState, error |-> error,
   sessionPromiseRef |-> sessionPromiseRef,
   inputContextRef |-> inputContextRef, outputContextRef |-> outputContextRef,
   frameIntervalRef |-> frameIntervalRef, frameTimer |-> frameTimer,
   frameTimers |-> frameTimers,
   streams |-> streams, srcObject |-> srcObject,
   stops |-> stops, lastDone |-> "none",
   nextStartTimeRef |-> nextStartTimeRef, currentTime |-> currentTime,
   activeSourcesRef |-> activeSourcesRef, sources |-> sources,
   isBotSpeaking |-> isBotSpeaking,
   history |-> history, currentSessionIdRef |-> currentSessionIdRef, lastStop |-> lastStop,
   viewMode |-> viewMode, savedSessions |-> savedSessions,
   insightData |-> insightData, scannerActive |-> scannerActive,
   showBlurWarning |-> showBlurWarning,
   inputCtxId |-> inputCtxId, micProcessors |-> micProcessors]

\* the state a handler leaves is rendered; the Transcript panel is rendered only while the
\* state is not DISCONNECTED, and its own state is lost when it is unmounted
Commit(st) ==
  /\ connectionState' = st.connectionState
  /\ error' = st.error
  /\ sessionPromiseRef' = st.sessionPromiseRef
  /\ inputContextRef' = st.inputContextRef
  /\ outputContextRef' = st.outputContextRef
  /\ frameIntervalRef' = st.frameIntervalRef
  /\ frameTimer' = st.frameTimer
  /\ frameTimers' = st.frameTimers
  /\ streams' = st.streams
  /\ srcObject' = st.srcObject
  /\ stops' = st.stops
  /\ lastDone' = st.lastDone
  /\ nextStartTimeRef' = st.nextStartTimeRef
  /\ currentTime' = st.currentTime
  /\ activeSourcesRef' = st.activeSourcesRef
  /\ sources' = st.sources
  /\ isBotSpeaking' = st.isBotSpeaking
  /\ history' = st.history
  /\ currentSessionIdRef' = st.currentSessionIdRef
  /\ lastStop' = st.lastStop
  /\ viewMode' = IF st.connectionState = "disconnected" THEN "live" ELSE st.viewMode
  /\ savedSessions' = IF st.connectionState = "disconnected" THEN <<>> ELSE st.savedSessions
  /\ insightData' = st.insightData
  /\ scannerActive' = st.scannerActive
  /\ showBlurWarning' = st.showBlurWarning
  /\ inputCtxId' = st.inputCtxId
  /\ micProcessors' = st.micProcessors

\* "if (frameIntervalRef.current) clearInterval(frameIntervalRef.current)"
clearInterval(st) ==
  IF st.frameIntervalRef = 0 THEN st
  ELSE [st EXCEPT !.frameTimers = @ \ {[chan |-> st.frameIntervalRef,
                                        period |-> st.frameTimer.period,
                                        quality |-> st.frameTimer.quality]}]

\* the delay handed to setInterval, 1000 / videoFrameRate, which the timer takes as a whole
\* number of milliseconds; rate is in half frames per second
Period(rate) == 2000 \div rate

\* startVideoStreaming(sessionPromise) as made in a render with the given videoFrameRate
\* and videoQuality; target is the startSession call whose channel promise is passed
startVideoStreaming(st, target, rate, quality) ==
  [clearInterval(st) EXCEPT !.frameIntervalRef = target,
                            !.frameTimer = [period |-> Period(rate), quality |-> quality],
                            !.frameTimers = @ \cup {[chan |-> target, period |-> Period(rate),
                                                     quality |-> quality]}]

\* the effect on [videoFrameRate, videoQuality, connectionState, startVideoStreaming], run
\* after a render in which one of them has changed
streamingEffect(st, rate, quality) ==
  IF st.connectionState = "connected" /\ st.sessionPromiseRef # 0
  THEN startVideoStreaming(st, st.sessionPromiseRef, rate, quality)
  ELSE st

\* MediaStreamTrack.stop() on every track / every video track of a stream
StopTrack(t) == IF t = "none" THEN "none" ELSE "ended"
stopTracks(stream) == [audio |-> StopTrack(stream.audio), video |-> StopTrack(stream.video)]
stopVideoTracks(stream) == [stream EXCEPT !.video = StopTrack(stream.video)]

\* source.stop() on every source of the active set, then activeSourcesRef.current.clear()
StopAndClear(st) ==
  [st EXCEPT !.sources = {IF src.id \in st.activeSourcesRef
                          THEN [src EXCEPT !.stopped = TRUE] ELSE src : src \in @},
             !.activeSourcesRef = {}]

\* saveSessionToHistory(): the session of the current id is rewritten in place; with no
\* current id a new session is put in front of the store and its id becomes current
saveSessionToHistory(st) ==
  IF messages = <<>> THEN st
  ELSE IF st.currentSessionIdRef # <<>>
  THEN [st EXCEPT !.history =
          [i \in 1..Len(st.history) |->
             IF st.history[i].id = st.currentSessionIdRef
             THEN [st.history[i] EXCEPT !.messages = messages, !.timestamp = dateNow]
             ELSE st.history[i]]]
  ELSE LET newId == toString(dateNow) IN
       [st EXCEPT !.currentSessionIdRef = newId,
                  !.history = <<[id |-> newId, timestamp |-> dateNow, messages |-> messages,
                                 session |-> Len(starts)]>> \o @]

\* stopSession, last part: saveSessionToHistory and the session-id reset
StopFinish(st, co) ==
  [saveSessionToHistory(st) EXCEPT !.currentSessionIdRef = <<>>,
                                   !.lastDone = "stop",
                                   !.lastStop = [again |-> co.again, history |-> co.history,
                                                 currentMessages |-> co.currentMessages,
                                                 sessionId |-> co.sessionId]]

\* stopSession from "sessionPromiseRef.current = null" to the summary
StopTail(st, co) ==
  LET s1 == [st EXCEPT !.sessionPromiseRef = 0,
                       !.streams = IF st.srcObject = 0 THEN @
                                   ELSE [@ EXCEPT ![st.srcObject] = stopTracks(@)],
                       !.srcObject = 0,
                       !.connectionState = "disconnected",
                       !.isBotSpeaking = FALSE,
                       !.insightData = NoInsight,
                       !.showBlurWarning = FALSE,
                       !.scannerActive = FALSE]
  IN IF Len(co.currentMessages) >= 2
     THEN [s1 EXCEPT !.stops = Append(@, [co EXCEPT !.pc = "summary"])]
     ELSE StopFinish(s1, co)

\* stopSession at "if (outputContextRef.current) await outputContextRef.current.close()":
\* close() of a context that was closed before rejects, which ends the call
StopAtOutput(st, co) ==
  CASE st.outputContextRef = "null" -> StopTail(st, co)
    [] st.outputContextRef = "closed" -> st
    [] OTHER -> [st EXCEPT !.outputContextRef = "closed",
                           !.stops = Append(@, [co EXCEPT !.pc = "closeOut"])]

\* stopSession at "if (inputContextRef.current) await inputContextRef.current.close()"
StopAtInput(st, co) ==
  CASE st.inputContextRef = "null" -> StopAtOutput(st, co)
    [] st.inputContextRef = "closed" -> st
    [] OTHER -> [st EXCEPT !.inputContextRef = "closed",
                           !.micProcessors = {p \in @ : p.ctx # st.inputCtxId},
                           !.stops = Append(@, [co EXCEPT !.pc = "closeIn"])]

\* stopSession() called in state st, run up to its first suspension; messagesRef.current
\* is read as the message log of the last render
stopSession(st) ==
  LET co == [pc |-> "entry", currentMessages |-> messages,
             again |-> (lastDone = "stop"), history |-> history,
             sessionId |-> st.currentSessionIdRef]
      s1 == StopAndClear([clearInterval(st) EXCEPT !.frameIntervalRef = 0,
                                                    !.frameTimer = NoTimer])
  IN StopAtInput(s1, co)

RemoveAt(seq, i) == SubSeq(seq, 1, i - 1) \o SubSeq(seq, i + 1, Len(seq))

\* a call stopSession(), in whatever state the component is
StopCall ==
  /\ Len(stops) < MaxStops
  /\ Len(history) < MaxHistory
  /\ Commit(stopSession(Cur))
  /\ starts' = [k \in 1..Len(starts) |->
                  IF connectionState = "connecting" /\ starts[k].pc \in {"getUserMedia", "play"}
                  THEN [starts[k] EXCEPT !.cancelled = TRUE] ELSE starts[k]]
  /\ UNCHANGED <<transcriptVars, replayVars, auxVars, switches, playHistVars, shadowVars, sendVars>>

\* the stop button, rendered while connected
StopSession ==
  /\ connectionState = "connected"
  /\ StopCall

\* a suspended stopSession call resumes: the awaited close() or summary has settled
StopResume(j) ==
  /\ j \in 1..Len(stops)
  /\ Len(history) < MaxHistory
  /\ LET co == stops[j]
         st == [Cur EXCEPT !.stops = RemoveAt(stops, j)]
     IN CASE co.pc = "closeIn" -> Commit(StopAtOutput([st EXCEPT !.inputContextRef = "null",
                                                                 !.inputCtxId = 0], co))
          [] co.pc = "closeOut" -> Commit(StopTail([st EXCEPT !.outputContextRef = "null"], co))
          [] co.pc = "summary" -> Commit(StopFinish(st, co))
  /\ UNCHANGED <<transcriptVars, replayVars, auxVars, starts, switches, playHistVars, shadowVars, sendVars>>

\* startSession up to "await navigator.mediaDevices.getUserMedia(constraints)"
startSession ==
  /\ Len(starts) < MaxStarts
  /\ connectionState' = "connecting"
  /\ error' = FALSE
  /\ messages' = <<>>
  /\ starts' = Append(starts, [pc |-> "getUserMedia", stream |-> 0, chan |-> "none",
                               opened |-> FALSE, cancelled |-> FALSE,
                               from |-> connectionState,
                               rate |-> videoFrameRate, quality |-> videoQuality,
                               muted |-> isMicMuted])
  /\ currentSessionIdRef' = <<>>
  /\ insightData' = NoInsight
  /\ showBlurWarning' = FALSE
  /\ scannerActive' = FALSE
  /\ lastDone' = "start"
  /\ UNCHANGED <<dateNow, lastCall, replayVars, auxVars, sessionPromiseRef, audioCtxVars,
                 captureVars, stops, history, lastStop, panelVars, micVars, playbackVars,
                 sendVars>>

\* the start button is rendered only on the welcome screen, which the summary modal covers
\* while generateSessionSummary is awaited (its close button is disabled until then)
StartButton ==
  /\ connectionState = "disconnected" /\ ~error
  /\ \A j \in 1..Len(stops) : stops[j].pc # "summary"
  /\ startSession

\* the catch block of startSession without setError
StartCatch_noReport(st) ==
  stopSession([st EXCEPT !.connectionState = "error"])

\* the catch block of startSession
StartCatch(st) ==
  stopSession([st EXCEPT !.error = TRUE, !.connectionState = "error"])

\* startSession resumes after getUserMedia: on success up to "await videoRef.current.play()"
StartGotMedia(k, ok) ==
  /\ k \in 1..Len(starts) /\ starts[k].pc = "getUserMedia"
  /\ IF ok
     THEN /\ Len(streams) < MaxStreams
          /\ Commit([Cur EXCEPT !.streams = Append(@, [audio |-> "live", video |-> "live"]),
                                !.srcObject = Len(streams) + 1])
          /\ starts' = [starts EXCEPT ![k].pc = "play", ![k].stream = Len(streams) + 1]
     ELSE /\ Len(stops) < MaxStops
          /\ Commit(StartCatch(Cur))
          /\ starts' = [starts EXCEPT ![k].pc = "failed"]
  /\ UNCHANGED <<transcriptVars, replayVars, auxVars, switches, playHistVars, shadowVars, sendVars>>

\* StartPlayed calling startVideoStreaming(sessionPromise) right after ai.live.connect
StartPlayed_armsTimer(k, ok) ==
  /\ k \in 1..Len(starts) /\ starts[k].pc = "play"
  /\ IF ok
     THEN /\ Commit(startVideoStreaming(
                    [Cur EXCEPT !.inputContextRef = "running", !.outputContextRef = "running",
                                !.inputCtxId = k, !.currentTime = 0,
                                !.nextStartTimeRef = 0, !.sessionPromiseRef = k],
                    k, starts[k].rate, starts[k].quality))
          /\ starts' = [starts EXCEPT ![k].pc = "done", ![k].chan = "connecting"]
     ELSE /\ Len(stops) < MaxStops
          /\ Commit(StartCatch(Cur))
          /\ starts' = [starts EXCEPT ![k].pc = "failed"]
  /\ cursorWithout' = IF ok THEN 0 ELSE cursorWithout
  /\ UNCHANGED <<transcriptVars, replayVars, auxVars, switches, playHistVars, malformed, sendVars>>

\* startSession resumes after play(): on success it creates the audio contexts and calls
\* ai.live.connect; a rejected play() or a missing API key goes to the catch block
StartPlayed(k, ok) ==
  /\ k \in 1..Len(starts) /\ starts[k].pc = "play"
  /\ IF ok
     THEN /\ Commit([Cur EXCEPT !.inputContextRef = "running", !.outputContextRef = "running",
                                !.inputCtxId = k, !.currentTime = 0,
                                !.nextStartTimeRef = 0, !.sessionPromiseRef = k])
          /\ starts' = [starts EXCEPT ![k].pc = "done", ![k].chan = "connecting"]
     ELSE /\ Len(stops) < MaxStops
          /\ Commit(StartCatch(Cur))
          /\ starts' = [starts EXCEPT ![k].pc = "failed"]
  /\ cursorWithout' = IF ok THEN 0 ELSE cursorWithout
  /\ UNCHANGED <<transcriptVars, replayVars, auxVars, switches, playHistVars, malformed, sendVars>>

\* callbacks.onopen of the channel opened by start k. Unless inputContextRef.current is
\* null it wires a ScriptProcessorNode on that context (one on a closed context never
\* fires) and calls the startVideoStreaming of the render startSession was called in; the
\* effect on connectionState, run when the state has changed, then calls the current
\* startVideoStreaming(sessionPromiseRef.current) when that is set
OnOpen(k) ==
  /\ k \in 1..Len(starts) /\ starts[k].chan = "connecting"
  /\ starts' = [starts EXCEPT ![k].chan = "open", ![k].opened = TRUE]
  /\ LET s1 == [Cur EXCEPT !.connectionState = "connected",
                           !.micProcessors =
                              IF inputContextRef = "running"
                              THEN @ \cup {[chan |-> k, ctx |-> inputCtxId]} ELSE @]
         s2 == IF inputContextRef # "null"
               THEN startVideoStreaming(s1, k, starts[k].rate, starts[k].quality) ELSE s1
     IN Commit(IF connectionState # "connected"
               THEN streamingEffect(s2, videoFrameRate, videoQuality) ELSE s2)
  /\ UNCHANGED <<transcriptVars, replayVars, auxVars, switches, playHistVars, shadowVars, sendVars>>

\* callbacks.onclose
OnClose(k) ==
  /\ k \in 1..Len(starts) /\ starts[k].chan \in {"connecting", "open", "failing"}
  /\ starts' = [starts EXCEPT ![k].chan = "closed"]
  /\ Commit([Cur EXCEPT !.connectionState = "disconnected"])
  /\ UNCHANGED <<transcriptVars, replayVars, auxVars, switches, playHistVars, shadowVars, sendVars>>

\* callbacks.onerror: the error event of the channel's WebSocket, after which the socket
\* neither opens nor carries data and its close event follows
OnError(k) ==
  /\ k \in 1..Len(starts) /\ starts[k].chan \in {"connecting", "open"}
  /\ starts' = [starts EXCEPT ![k].chan = "failing"]
  /\ Commit([Cur EXCEPT !.error = TRUE, !.connectionState = "error"])
  /\ UNCHANGED <<transcriptVars, replayVars, auxVars, switches, playHistVars, shadowVars, sendVars>>

\* the button of the error overlay: setError(null)
DismissError ==
  /\ error
  /\ Commit([Cur EXCEPT !.error = FALSE])
  /\ UNCHANGED <<transcriptVars, replayVars, auxVars, starts, switches, playHistVars, shadowVars, sendVars>>

\* switchCamera(deviceId) up to "await navigator.mediaDevices.getUserMedia"
switchCamera ==
  /\ connectionState = "connected"
  /\ Len(streams) + Len(switches) < MaxStreams
  /\ Commit([Cur EXCEPT !.streams = IF srcObject = 0 THEN @
                                    ELSE [@ EXCEPT ![srcObject] = stopVideoTracks(@)]])
  /\ switches' = Append(switches, [pc |-> "getUserMedia"])
  /\ UNCHANGED <<transcriptVars, replayVars, auxVars, starts, playHistVars, shadowVars, sendVars>>

\* switchCamera resumes after getUserMedia / after play(); a rejection is caught and reported
SwitchResume(i, ok) ==
  /\ i \in 1..Len(switches)
  /\ IF ~ok
     THEN /\ Commit([Cur EXCEPT !.error = TRUE])
          /\ switches' = RemoveAt(switches, i)
     ELSE IF switches[i].pc = "getUserMedia"
     THEN /\ Commit([Cur EXCEPT !.streams = Append(@, [audio |-> "none", video |-> "live"]),
                                !.srcObject = Len(streams) + 1])
          /\ switches' = [switches EXCEPT ![i].pc = "play"]
     ELSE /\ Commit(Cur)
          /\ switches' = RemoveAt(switches, i)
  /\ UNCHANGED <<transcriptVars, replayVars, auxVars, starts, playHistVars, shadowVars, sendVars>>

(* ------------------------ inbound message handling --------------------- *)
Max(a, b) == IF a >= b THEN a ELSE b

\* the "interrupted" branch of onmessage
Interrupt(st) ==
  [StopAndClear(st) EXCEPT !.nextStartTimeRef = 0, !.isBotSpeaking = FALSE,
                           !.lastDone = "interrupted"]

\* decodeAudioData(decode(data), ...): the duration of the decoded buffer; a payload is
\* modelled by the duration of the audio it encodes, -1 for a payload that does not decode
decodeAudioData(data) == data

\* the function response onmessage builds for one function call: the try block of the
\* draw_diagram branch holds a type cast, a log and a state setter, none of which throws,
\* so its catch branch is never taken
toolResponse(call) ==
  IF call.name = "draw_diagram"
  THEN [id |-> call.id, name |-> call.name,
        response |-> [kind |-> "result", text |-> "Diagram displayed successfully."]]
  ELSE [id |-> call.id, name |-> call.name,
        response |-> [kind |-> "result", text |-> "Function not implemented"]]

\* functionCalls.map(...) answering only the calls of the registered name
toolResponses_skipUnknown(calls) ==
  LET known == {i \in 1..Len(calls) : calls[i].name = "draw_diagram"} IN
  IF known = {} THEN <<>>
  ELSE [i \in 1..Cardinality(known) |->
          toolResponse(calls[CHOOSE j \in known : Cardinality({l \in known : l <= j}) = i])]

\* functionCalls.map(...): one function response per function call, in call order
toolResponses(calls) == [i \in 1..Len(calls) |-> toolResponse(calls[i])]

\* the value of diagramData after the setDiagramData(args) calls made for calls
RECURSIVE shownDiagram(_, _)
shownDiagram(calls, shown) ==
  IF calls = <<>> THEN shown
  ELSE shownDiagram(Tail(calls),
                    IF Head(calls).name = "draw_diagram" THEN <<Head(calls).args>> ELSE shown)

\* onmessage marking the last message of the log complete on a turn-complete event
OnMessage_turnCloses(k, msg) ==
  /\ k \in 1..Len(starts) /\ starts[k].chan = "open"
  /\ TotalChars(messages) + Len(msg.inputTranscription) + Len(msg.outputTranscription) <= MaxChars
  /\ LET m1 == IF msg.inputTranscription # <<>>
               THEN updateTranscript(messages, "user", msg.inputTranscription, FALSE, dateNow)
               ELSE messages
         c1 == IF msg.inputTranscription # <<>>
               THEN Call("user", msg.inputTranscription, FALSE, messages)
               ELSE lastCall
         m2 == IF msg.outputTranscription # <<>>
               THEN updateTranscript(m1, "model", msg.outputTranscription, FALSE, dateNow)
               ELSE m1
         c2 == IF msg.outputTranscription # <<>>
               THEN CallAfter(c1, "model", msg.outputTranscription, FALSE, m1)
               ELSE c1
         m3 == IF msg.turnComplete /\ Len(m2) > 0
               THEN [m2 EXCEPT ![Len(m2)].isComplete = TRUE]
               ELSE m2
         s1 == [Cur EXCEPT !.isBotSpeaking = IF msg.turnComplete THEN FALSE ELSE @]
         hasAudio == msg.audioData # 0 /\ outputContextRef # "null"
     IN /\ messages' = m3
        /\ lastCall' = [c2 EXCEPT !.ended = @ \/ msg.turnComplete]
        /\ IF msg.toolCall # <<>>
           THEN /\ lastTool' = [chan |-> k, calls |-> msg.toolCall,
                                responses |-> toolResponses(msg.toolCall)]
                /\ diagramData' = shownDiagram(msg.toolCall, diagramData)
           ELSE UNCHANGED toolVars
        /\ IF hasAudio
           THEN /\ arrivals < MaxAudio
                /\ Commit([s1 EXCEPT !.isBotSpeaking = TRUE,
                                     !.nextStartTimeRef = Max(nextStartTimeRef, currentTime)])
                /\ decoding' = decoding \cup
                     {[arr |-> arrivals + 1, data |-> msg.audioData,
                       interrupted |-> msg.interrupted, arrClock |-> currentTime,
                       arrCursor |-> nextStartTimeRef, arrEpoch |-> interruptions,
                       first |-> (interruptions > 0 /\ arrivals = interruptedAt),
                       afterBad |-> (malformed > 0)]}
                /\ arrivals' = arrivals + 1
                /\ cursorWithout' = IF decodeAudioData(msg.audioData) < 0 THEN cursorWithout
                                    ELSE Max(cursorWithout, currentTime)
                /\ malformed' = IF decodeAudioData(msg.audioData) < 0 THEN malformed + 1
                                ELSE malformed
                /\ UNCHANGED <<played, interruptions, interruptedAt>>
           ELSE IF msg.interrupted
           THEN /\ interruptions < MaxInterrupts
                /\ Commit(Interrupt(s1))
                /\ interruptions' = interruptions + 1
                /\ interruptedAt' = arrivals
                /\ cursorWithout' = 0
                /\ UNCHANGED <<decoding, played, arrivals, malformed>>
           ELSE /\ Commit(s1)
                /\ UNCHANGED <<playHistVars, shadowVars>>
  /\ UNCHANGED <<dateNow, replayVars, qualityVars, timeoutVars, isMicMuted, starts, switches,
                 sendVars>>

\* callbacks.onmessage(msg) of the channel opened by start k, up to "await decodeAudioData"
\* when msg carries audio, to its end otherwise; outputNodeRef.current is set together with
\* outputContextRef.current and never reset, so it is non-null whenever a channel is open.
\* msg.toolCall is the list functionCalls, <<>> when the message carries none; the channel
\* promise has resolved, so the then-callback hands the responses to the session at once
OnMessage(k, msg) ==
  /\ k \in 1..Len(starts) /\ starts[k].chan = "open"
  /\ TotalChars(messages) + Len(msg.inputTranscription) + Len(msg.outputTranscription) <= MaxChars
  /\ LET m1 == IF msg.inputTranscription # <<>>
               THEN updateTranscript(messages, "user", msg.inputTranscription, FALSE, dateNow)
               ELSE messages
         c1 == IF msg.inputTranscription # <<>>
               THEN Call("user", msg.inputTranscription, FALSE, messages)
               ELSE lastCall
         m2 == IF msg.outputTranscription # <<>>
               THEN updateTranscript(m1, "model", msg.outputTranscription, FALSE, dateNow)
               ELSE m1
         c2 == IF msg.outputTranscription # <<>>
               THEN CallAfter(c1, "model", msg.outputTranscription, FALSE, m1)
               ELSE c1
         s1 == [Cur EXCEPT !.isBotSpeaking = IF msg.turnComplete THEN FALSE ELSE @]
         hasAudio == msg.audioData # 0 /\ outputContextRef # "null"
     IN /\ messages' = m2
        /\ lastCall' = [c2 EXCEPT !.ended = @ \/ msg.turnComplete]
        /\ IF msg.toolCall # <<>>
           THEN /\ lastTool' = [chan |-> k, calls |-> msg.toolCall,
                                responses |-> toolResponses(msg.toolCall)]
                /\ diagramData' = shownDiagram(msg.toolCall, diagramData)
           ELSE UNCHANGED toolVars
        /\ IF hasAudio
           THEN /\ arrivals < MaxAudio
                /\ Commit([s1 EXCEPT !.isBotSpeaking = TRUE,
                                     !.nextStartTimeRef = Max(nextStartTimeRef, currentTime)])
                /\ decoding' = decoding \cup
                     {[arr |-> arrivals + 1, data |-> msg.audioData,
                       interrupted |-> msg.interrupted, arrClock |-> currentTime,
                       arrCursor |-> nextStartTimeRef, arrEpoch |-> interruptions,
                       first |-> (interruptions > 0 /\ arrivals = interruptedAt),
                       afterBad |-> (malformed > 0)]}
                /\ arrivals' = arrivals + 1
                /\ cursorWithout' = IF decodeAudioData(msg.audioData) < 0 THEN cursorWithout
                                    ELSE Max(cursorWithout, currentTime)
                /\ malformed' = IF decodeAudioData(msg.audioData) < 0 THEN malformed + 1
                                ELSE malformed
                /\ UNCHANGED <<played, interruptions, interruptedAt>>
           ELSE IF msg.interrupted
           THEN /\ interruptions < MaxInterrupts
                /\ Commit(Interrupt(s1))
                /\ interruptions' = interruptions + 1
                /\ interruptedAt' = arrivals
                /\ cursorWithout' = 0
                /\ UNCHANGED <<decoding, played, arrivals, malformed>>
           ELSE /\ Commit(s1)
                /\ UNCHANGED <<playHistVars, shadowVars>>
  /\ UNCHANGED <<dateNow, replayVars, qualityVars, timeoutVars, isMicMuted, starts, switches,
                 sendVars>>

\* an onmessage call resumes after "await decodeAudioData": a rejected decode, or a null
\* outputContextRef.current, throws and ends the call; otherwise the buffer is started
DecodeDone(a) ==
  \E h \in decoding :
  /\ h.arr = a
  /\ decoding' = decoding \ {h}
  /\ LET duration == decodeAudioData(h.data) IN
     IF duration < 0 \/ outputContextRef = "null"
     THEN /\ Commit(Cur)
          /\ UNCHANGED <<played, interruptions, interruptedAt, cursorWithout>>
     ELSE LET start == nextStartTimeRef
              src == [id |-> h.arr, end |-> Max(start, currentTime) + duration, stopped |-> FALSE]
              s1 == [Cur EXCEPT !.nextStartTimeRef = start + duration,
                                !.activeSourcesRef = @ \cup {h.arr},
                                !.sources = @ \cup {src}]
          IN /\ played' = Append(played, [arr |-> h.arr, start |-> start, duration |-> duration,
                                          arrClock |-> h.arrClock, arrCursor |-> h.arrCursor,
                                          arrEpoch |-> h.arrEpoch, epoch |-> interruptions,
                                          first |-> h.first, afterBad |-> h.afterBad,
                                          without |-> cursorWithout, bad |-> malformed])
             /\ IF h.interrupted
                THEN /\ interruptions < MaxInterrupts
                     /\ Commit(Interrupt(s1))
                     /\ interruptions' = interruptions + 1
                     /\ interruptedAt' = arrivals
                     /\ cursorWithout' = 0
                ELSE /\ Commit(s1)
                     /\ cursorWithout' = cursorWithout + duration
                     /\ UNCHANGED <<interruptions, interruptedAt>>
  /\ UNCHANGED <<transcriptVars, replayVars, auxVars, starts, switches, arrivals, malformed, sendVars>>

\* the output clock advances while the output context runs
AdvanceClock ==
  /\ outputContextRef = "running"
  /\ currentTime < MaxClock
  /\ Commit([Cur EXCEPT !.currentTime = @ + 1])
  /\ UNCHANGED <<transcriptVars, replayVars, auxVars, starts, switches, playHistVars, shadowVars, sendVars>>

\* the 'ended' listener of a source that has played to its end or was stopped
SourceEnded(id) ==
  \E src \in sources :
  /\ src.id = id
  /\ src.stopped \/ currentTime >= src.end
  /\ LET active == activeSourcesRef \ {src.id} IN
     Commit([Cur EXCEPT !.activeSourcesRef = active,
                        !.sources = @ \ {src},
                        !.isBotSpeaking = IF active = {} THEN FALSE ELSE @])
  /\ UNCHANGED <<transcriptVars, replayVars, auxVars, starts, switches, playHistVars, shadowVars, sendVars>>

\* a server message that carries at most an audio payload, an interruption marker and a
\* turn-complete marker
AudioMsgs ==
  {[inputTranscription |-> <<>>, outputTranscription |-> <<>>, turnComplete |-> t,
    audioData |-> a, interrupted |-> i, toolCall |-> <<>>] :
     a \in (1..MaxDuration) \cup {0, -1}, i \in BOOLEAN, t \in BOOLEAN}

NextPlayback ==
  \/ StartButton
  \/ \E k \in 1..MaxStarts, ok \in BOOLEAN : StartGotMedia(k, ok)
  \/ \E k \in 1..MaxStarts, ok \in BOOLEAN : StartPlayed(k, ok)
  \/ \E k \in 1..MaxStarts : OnOpen(k)
  \/ \E k \in 1..MaxStarts, msg \in AudioMsgs : OnMessage(k, msg)
  \/ \E a \in 1..MaxAudio : DecodeDone(a)
  \/ AdvanceClock
  \/ \E id \in 1..MaxAudio : SourceEnded(id)

SpecPlayback == Init /\ [][NextPlayback]_vars

\* a server message that carries one output transcription delta
ReplyMsgs ==
  {[inputTranscription |-> <<>>, outputTranscription |-> <<"a">>, turnComplete |-> FALSE,
    audioData |-> 0, interrupted |-> FALSE, toolCall |-> <<>>]}

\* a server message that carries an audio payload of one tick and nothing else
BufferMsgs ==
  {[inputTranscription |-> <<>>, outputTranscription |-> <<>>, turnComplete |-> FALSE,
    audioData |-> 1, interrupted |-> FALSE, toolCall |-> <<>>]}

NextFlush ==
  \/ StartButton
  \/ \E k \in 1..MaxStarts, ok \in BOOLEAN : StartGotMedia(k, ok)
  \/ \E k \in 1..MaxStarts, ok \in BOOLEAN : StartPlayed(k, ok)
  \/ \E k \in 1..MaxStarts : OnOpen(k)
  \/ \E k \in 1..MaxStarts, msg \in BufferMsgs : OnMessage(k, msg)
  \/ \E a \in 1..MaxAudio : DecodeDone(a)
  \/ \E id \in 1..MaxAudio : SourceEnded(id)
  \/ StopSession
  \/ \E j \in 1..MaxStops : StopResume(j)

SpecFlush == Init /\ [][NextFlush]_vars

\* the save button, rendered in the controls of a connected session and disabled while the
\* log is empty: saveSessionToHistory(true)
SaveButton ==
  /\ connectionState = "connected"
  /\ messages # <<>>
  /\ Len(history) < MaxHistory
  /\ Commit([saveSessionToHistory(Cur) EXCEPT !.lastDone = "save"])
  /\ UNCHANGED <<transcriptVars, replayVars, auxVars, starts, switches, playbackVars, sendVars>>

\* Transcript, handleToggleHistory: from the live view loadHistory() reads the store into
\* savedSessions and the list is shown; from the list the live view is shown again
handleToggleHistory ==
  /\ connectionState # "disconnected"
  /\ Commit(IF viewMode = "live"
            THEN [Cur EXCEPT !.savedSessions = history, !.viewMode = "history_list"]
            ELSE [Cur EXCEPT !.viewMode = "live"])
  /\ UNCHANGED <<transcriptVars, replayVars, auxVars, starts, switches, playbackVars, sendVars>>

\* Transcript, handleDeleteSession(id) on a row of the list, confirmed: the entries of
\* savedSessions without that id are shown and written to the store
handleDeleteSession(id) ==
  /\ connectionState # "disconnected"
  /\ viewMode = "history_list"
  /\ \E i \in 1..Len(savedSessions) : savedSessions[i].id = id
  /\ LET updated == SelectSeq(savedSessions, LAMBDA e : e.id # id)
     IN Commit([Cur EXCEPT !.savedSessions = updated, !.history = updated])
  /\ UNCHANGED <<transcriptVars, replayVars, auxVars, starts, switches, playbackVars, sendVars>>

\* a session with the save button and the history panel
NextHistory ==
  \/ Tick
  \/ StartButton
  \/ \E k \in 1..MaxStarts, ok \in BOOLEAN : StartGotMedia(k, ok)
  \/ \E k \in 1..MaxStarts, ok \in BOOLEAN : StartPlayed(k, ok)
  \/ \E k \in 1..MaxStarts : OnOpen(k)
  \/ \E k \in 1..MaxStarts, msg \in ReplyMsgs : OnMessage(k, msg)
  \/ SaveButton
  \/ handleToggleHistory
  \/ \E id \in {toString(t) : t \in 0..MaxNow} : handleDeleteSession(id)
  \/ StopSession
  \/ \E j \in 1..MaxStops : StopResume(j)

SpecHistory == Init /\ [][NextHistory]_vars

\* the flags, handles and pending timeouts the insight effect works on
CurTimeouts ==
  [scannerActive |-> scannerActive, showBlurWarning |-> showBlurWarning,
   scannerTimeoutRef |-> scannerTimeoutRef, blurTimeoutRef |-> blurTimeoutRef,
   timeouts |-> timeouts, timeoutSeq |-> timeoutSeq]

\* clearTimeout(handle): nothing happens for null or for a timeout that has fired
clearTimeout(pend, handle) == {t \in pend : t.id # handle}

\* the highlight arm with the clearTimeout made on the handle of the blur timeout
armScanner_sharedHandle(ts) ==
  [ts EXCEPT !.scannerActive = TRUE,
             !.timeouts = clearTimeout(@, ts.blurTimeoutRef) \cup
                            {[id |-> ts.timeoutSeq + 1, clears |-> "scanner",
                              left |-> ScannerDelay]},
             !.scannerTimeoutRef = ts.timeoutSeq + 1,
             !.timeoutSeq = @ + 1]

\* "setScannerActive(true); if (scannerTimeoutRef.current) clearTimeout(...);
\* scannerTimeoutRef.current = window.setTimeout(() => setScannerActive(false), 5000)"
armScanner(ts) ==
  [ts EXCEPT !.scannerActive = TRUE,
             !.timeouts = clearTimeout(@, ts.scannerTimeoutRef) \cup
                            {[id |-> ts.timeoutSeq + 1, clears |-> "scanner",
                              left |-> ScannerDelay]},
             !.scannerTimeoutRef = ts.timeoutSeq + 1,
             !.timeoutSeq = @ + 1]

\* the blur arm without the clearTimeout of the timeout held
armBlur_stacking(ts) ==
  [ts EXCEPT !.showBlurWarning = TRUE,
             !.timeouts = @ \cup {[id |-> ts.timeoutSeq + 1, clears |-> "blur",
                                   left |-> BlurDelay]},
             !.blurTimeoutRef = ts.timeoutSeq + 1,
             !.timeoutSeq = @ + 1]

\* "setShowBlurWarning(true); if (blurTimeoutRef.current) clearTimeout(...);
\* blurTimeoutRef.current = window.setTimeout(() => setShowBlurWarning(false), 6000)"
armBlur(ts) ==
  [ts EXCEPT !.showBlurWarning = TRUE,
             !.timeouts = clearTimeout(@, ts.blurTimeoutRef) \cup
                            {[id |-> ts.timeoutSeq + 1, clears |-> "blur",
                              left |-> BlurDelay]},
             !.blurTimeoutRef = ts.timeoutSeq + 1,
             !.timeoutSeq = @ + 1]

\* what the patterns of the insight effect find in the text of the last message: the
\* clause captured after a topic marker and after a key-point marker (<<>> for no match),
\* and whether the gesture and the blur pattern match
Matches ==
  [knowledge : {<<>>, <<"k1">>}, eye : {<<>>, <<"e1">>}, gesture : BOOLEAN, blur : BOOLEAN]

\* the value setInsightData's updater returns for the matches m
newInsight(prev, m) ==
  [knowledge |-> IF m.knowledge # <<>> THEN m.knowledge ELSE prev.knowledge,
   eye |-> IF m.eye # <<>> THEN m.eye ELSE prev.eye]

\* the body of the insight effect on a last message of role model
insightEffect(ts, prev, m) ==
  LET new == newInsight(prev, m)
      t1 == IF \/ (new.knowledge # <<>> /\ new.knowledge # prev.knowledge)
               \/ (new.eye # <<>> /\ new.eye # prev.eye)
            THEN armScanner(ts) ELSE ts
      t2 == IF m.gesture THEN armScanner(t1) ELSE t1
  IN IF m.blur THEN armBlur(t2) ELSE t2

\* the insight effect runs after an onmessage call on an open channel has changed the log
\* and left a message of role model last
InsightEffect(m) ==
  /\ \E k \in 1..Len(starts) : starts[k].chan = "open"
  /\ LET ts == insightEffect(CurTimeouts, insightData, m)
     IN /\ ts.timeoutSeq <= MaxTimeouts
        /\ Commit([Cur EXCEPT !.insightData = newInsight(insightData, m),
                              !.scannerActive = ts.scannerActive,
                              !.showBlurWarning = ts.showBlurWarning])
        /\ scannerTimeoutRef' = ts.scannerTimeoutRef
        /\ blurTimeoutRef' = ts.blurTimeoutRef
        /\ timeouts' = ts.timeouts
        /\ timeoutSeq' = ts.timeoutSeq
  /\ sinceBlur' = IF m.blur THEN 0 ELSE sinceBlur
  /\ UNCHANGED <<transcriptVars, replayVars, toolVars, qualityVars, isMicMuted, starts,
                 switches, playbackVars, sendVars>>

\* a pending timeout fires: its callback clears the flag it was set for
TimeoutFires(id) ==
  \E t \in timeouts :
    /\ t.id = id /\ t.left = 0
    /\ timeouts' = timeouts \ {t}
    /\ Commit(IF t.clears = "scanner" THEN [Cur EXCEPT !.scannerActive = FALSE]
                                      ELSE [Cur EXCEPT !.showBlurWarning = FALSE])
    /\ UNCHANGED <<transcriptVars, replayVars, toolVars, qualityVars, isMicMuted, starts,
                   switches, playbackVars, sendVars, scannerTimeoutRef, blurTimeoutRef, timeoutSeq,
                   sinceBlur>>

\* one second passes; a timeout that is due fires before more time passes
Elapse ==
  /\ timeouts # {}
  /\ \A t \in timeouts : t.left > 0
  /\ timeouts' = {[t EXCEPT !.left = @ - 1] : t \in timeouts}
  /\ sinceBlur' = IF sinceBlur > BlurDelay THEN sinceBlur ELSE sinceBlur + 1
  /\ UNCHANGED <<transcriptVars, replayVars, toolVars, qualityVars, isMicMuted, sessionVars,
                 playbackVars, sendVars, scannerTimeoutRef, blurTimeoutRef, timeoutSeq>>

\* sessions in which the insight effect runs and its timeouts fire
NextInsight ==
  \/ StartButton
  \/ \E k \in 1..MaxStarts : StartGotMedia(k, TRUE)
  \/ \E k \in 1..MaxStarts : StartPlayed(k, TRUE)
  \/ \E k \in 1..MaxStarts : OnOpen(k)
  \/ \E m \in Matches : InsightEffect(m)
  \/ \E id \in 1..MaxTimeouts : TimeoutFires(id)
  \/ Elapse
  \/ StopSession
  \/ \E j \in 1..MaxStops : StopResume(j)

SpecInsight == Init /\ [][NextInsight]_vars

\* session.sendRealtimeInput / session.send called on the session of start k (muted:
\* history, the microphone-mute flag at the call)
Sent(kind, k) ==
  [kind |-> kind, chan |-> k, state |-> connectionState, chanState |-> starts[k].chan,
   muted |-> isMicMuted]

\* handleSendMessage(text, displayOverride): shown is displayOverride || text, hasSend
\* tells whether the session object has a function 'send'. The then-callback that sends
\* runs at once when the channel promise has resolved and stays pending otherwise
handleSendMessage(shown, hasSend) ==
  /\ sessionPromiseRef # 0
  /\ TotalChars(messages) + Len(shown) <= MaxChars
  /\ messages' = updateTranscript(messages, "user", shown, TRUE, dateNow)
  /\ lastCall' = Call("user", shown, TRUE, messages)
  /\ IF ~hasSend
     THEN UNCHANGED <<pending, lastSent>>
     ELSE IF starts[sessionPromiseRef].opened
     THEN lastSent' = Sent("text", sessionPromiseRef) /\ UNCHANGED pending
     ELSE /\ pending' = pending \cup {[kind |-> "text", chan |-> sessionPromiseRef]}
          /\ UNCHANGED lastSent
  /\ UNCHANGED <<dateNow, replayVars, auxVars, sessionVars, playbackVars>>

\* a server message that carries at most transcriptions and a turn-complete marker
TextMsgs ==
  {[inputTranscription |-> i, outputTranscription |-> o, turnComplete |-> t,
    audioData |-> 0, interrupted |-> FALSE, toolCall |-> <<>>] :
     i \in Deltas, o \in Deltas, t \in BOOLEAN}

NextTranscript ==
  \/ StartButton
  \/ \E k \in 1..MaxStarts, ok \in BOOLEAN : StartGotMedia(k, ok)
  \/ \E k \in 1..MaxStarts, ok \in BOOLEAN : StartPlayed(k, ok)
  \/ \E k \in 1..MaxStarts : OnOpen(k)
  \/ \E k \in 1..MaxStarts, msg \in TextMsgs : OnMessage(k, msg)
  \/ \E shown \in Deltas \ {<<>>} : handleSendMessage(shown, FALSE)
  \/ \E k \in 1..MaxStarts : OnClose(k)
  \/ DismissError

SpecTranscript == Init /\ [][NextTranscript]_vars

(* ----------------------------- outbound media -------------------------- *)
\* processor.onaudioprocess of a processor whose context runs: the callback returns at
\* once when the isMicMuted of its closure, the one of the render startSession was called
\* in, is true; otherwise the channel promise has resolved (the processor was made in
\* onopen), so its then-callback sends the chunk before any other handler runs
OnAudioProcess(p) ==
  /\ p \in micProcessors
  /\ ~starts[p.chan].muted
  /\ lastSent' = Sent("audio", p.chan)
  /\ UNCHANGED <<transcriptVars, replayVars, auxVars, sessionVars, playbackVars, pending>>

\* the interval callback of startVideoStreaming, the video element holding a frame:
\* the frame is drawn and canvas.toBlob is asked for the JPEG
FrameTick ==
  /\ srcObject # 0
  /\ \E t \in frameTimers : pending' = pending \cup {[kind |-> "image", chan |-> t.chan]}
  /\ UNCHANGED <<transcriptVars, replayVars, auxVars, sessionVars, playbackVars, lastSent>>

\* a pending chunk is handed to the session: the toBlob callback and blobToBase64 have
\* run and the channel promise has resolved
Deliver(c) ==
  /\ c \in pending
  /\ starts[c.chan].opened
  /\ pending' = pending \ {c}
  /\ lastSent' = Sent(c.kind, c.chan)
  /\ UNCHANGED <<transcriptVars, replayVars, auxVars, sessionVars, playbackVars>>

\* the chunks that can be pending
Chunks == {[kind |-> kind, chan |-> k] : kind \in {"image", "text"}, k \in 1..MaxStarts}

\* the processors that can be wired
Processors == {[chan |-> k, ctx |-> c] : k \in 1..MaxStarts, c \in 1..MaxStarts}

(* --------------------------- adaptive quality -------------------------- *)
\* the quality state q is set and the render that follows runs the effect that restarts
\* the frame interval when videoFrameRate or videoQuality has changed
SetQuality(q) ==
  /\ videoFrameRate' = q.videoFrameRate
  /\ videoQuality' = q.videoQuality
  /\ networkStatus' = q.networkStatus
  /\ IF q.videoFrameRate # videoFrameRate \/ q.videoQuality # videoQuality
     THEN Commit(streamingEffect([Cur EXCEPT !.lastDone = "quality"],
                                 q.videoFrameRate, q.videoQuality))
     ELSE Commit([Cur EXCEPT !.lastDone = "quality"])

CurQuality ==
  [videoFrameRate |-> videoFrameRate, videoQuality |-> videoQuality,
   networkStatus |-> networkStatus]

\* the 'change' event of the connection-information object with new readings: the
\* listener updateQuality is installed while isAutoQuality is on
NetworkChange(conn) ==
  /\ connection # <<>> /\ conn # connection
  /\ connection' = conn
  /\ SetQuality(IF isAutoQuality THEN updateQuality(conn) ELSE CurQuality)
  /\ UNCHANGED <<transcriptVars, replayVars, toolVars, timeoutVars, isMicMuted,
                 isAutoQuality, starts, switches,
                 playHistVars, shadowVars, sendVars>>

\* the smart-quality toggle: setIsAutoQuality(!isAutoQuality), then the network
\* monitoring effect
ToggleAutoQuality ==
  /\ isAutoQuality' = ~isAutoQuality
  /\ SetQuality(networkEffect(~isAutoQuality, connection, CurQuality))
  /\ UNCHANGED <<transcriptVars, replayVars, toolVars, timeoutVars, isMicMuted,
                 connection, starts, switches,
                 playHistVars, shadowVars, sendVars>>

\* the frame-rate slider's onChange, setVideoFrameRate(value): while isAutoQuality is on
\* the slider's container takes no pointer events, but the input is not disabled and is
\* still moved from the keyboard
SetFrameRate(rate) ==
  /\ rate # videoFrameRate
  /\ SetQuality([CurQuality EXCEPT !.videoFrameRate = rate])
  /\ UNCHANGED <<transcriptVars, replayVars, toolVars, timeoutVars, isMicMuted,
                 connection, isAutoQuality, starts,
                 switches, playHistVars, shadowVars, sendVars>>

NextQuality ==
  \/ \E conn \in Telemetry : NetworkChange(conn)
  \/ ToggleAutoQuality
  \/ \E rate \in SliderRates : SetFrameRate(rate)

SpecQuality == InitWith({<<>>} \cup Telemetry) /\ [][NextQuality]_vars

\* the readings and slider values drawn while a session runs: one of each tier's side
CadenceTelemetry == {<<10, 50>>, <<100, 50>>}
CadenceRates == {1, 4}

NextCadence ==
  \/ StartButton
  \/ \E k \in 1..MaxStarts, ok \in BOOLEAN : StartGotMedia(k, ok)
  \/ \E k \in 1..MaxStarts, ok \in BOOLEAN : StartPlayed(k, ok)
  \/ \E k \in 1..MaxStarts : OnOpen(k)
  \/ \E k \in 1..MaxStarts : OnClose(k)
  \/ StopSession
  \/ \E j \in 1..MaxStops : StopResume(j)
  \/ \E conn \in CadenceTelemetry : NetworkChange(conn)
  \/ ToggleAutoQuality
  \/ \E rate \in CadenceRates : SetFrameRate(rate)

SpecCadence == InitWith({<<>>} \cup CadenceTelemetry) /\ [][NextCadence]_vars

(* ------------------------------ tool calls ----------------------------- *)
\* the argument payloads of a function call: which of the required properties title and
\* shapes it carries
ToolArgs == [title : BOOLEAN, shapes : BOOLEAN]

\* the function calls a tool-call event can carry: draw_diagram is the declared function
FunctionCalls(id) == [id : {id}, name : {"draw_diagram", "get_weather"}, args : ToolArgs]

\* a server message that carries one or two function calls, each with its own id
ToolMsgs ==
  {[inputTranscription |-> <<>>, outputTranscription |-> <<>>, turnComplete |-> FALSE,
    audioData |-> 0, interrupted |-> FALSE, toolCall |-> calls] :
     calls \in {<<c>> : c \in FunctionCalls("i1")} \cup
               {<<c, d>> : c \in FunctionCalls("i1"), d \in FunctionCalls("i2")}}

\* the close button of the diagram board
CloseDiagram ==
  /\ diagramData # <<>>
  /\ diagramData' = <<>>
  /\ UNCHANGED <<transcriptVars, replayVars, qualityVars, timeoutVars, isMicMuted,
                 lastTool, sessionVars, playbackVars,
                 sendVars>>

NextTools ==
  \/ StartButton
  \/ \E k \in 1..MaxStarts, ok \in BOOLEAN : StartGotMedia(k, ok)
  \/ \E k \in 1..MaxStarts, ok \in BOOLEAN : StartPlayed(k, ok)
  \/ \E k \in 1..MaxStarts : OnOpen(k)
  \/ \E k \in 1..MaxStarts, msg \in ToolMsgs : OnMessage(k, msg)
  \/ CloseDiagram
  \/ \E k \in 1..MaxStarts : OnClose(k)
  \/ \E k \in 1..MaxStarts : OnError(k)
  \/ DismissError

SpecTools == Init /\ [][NextTools]_vars

NextStart ==
  \/ StartButton
  \/ \E k \in 1..MaxStarts, ok \in BOOLEAN : StartGotMedia(k, ok)
  \/ \E k \in 1..MaxStarts, ok \in BOOLEAN : StartPlayed(k, ok)
  \/ \E k \in 1..MaxStarts : OnOpen(k)
  \/ \E k \in 1..MaxStarts : OnClose(k)
  \/ \E k \in 1..MaxStarts : OnError(k)
  \/ DismissError
  \/ StopSession
  \/ \E j \in 1..MaxStops : StopResume(j)

SpecStart == Init /\ [][NextStart]_vars

NextText ==
  \/ StartButton
  \/ \E k \in 1..MaxStarts, ok \in BOOLEAN : StartGotMedia(k, ok)
  \/ \E k \in 1..MaxStarts, ok \in BOOLEAN : StartPlayed(k, ok)
  \/ \E k \in 1..MaxStarts : OnOpen(k)
  \/ \E k \in 1..MaxStarts : OnClose(k)
  \/ \E k \in 1..MaxStarts : OnError(k)
  \/ DismissError
  \/ \E shown \in Deltas \ {<<>>}, hasSend \in BOOLEAN : handleSendMessage(shown, hasSend)
  \/ \E c \in Chunks : Deliver(c)

SpecText == Init /\ [][NextText]_vars

NextMedia ==
  \/ StartButton
  \/ \E k \in 1..MaxStarts, ok \in BOOLEAN : StartGotMedia(k, ok)
  \/ \E k \in 1..MaxStarts, ok \in BOOLEAN : StartPlayed(k, ok)
  \/ \E k \in 1..MaxStarts : OnOpen(k)
  \/ \E k \in 1..MaxStarts : OnClose(k)
  \/ \E k \in 1..MaxStarts : OnError(k)
  \/ DismissError
  \/ StopSession
  \/ \E j \in 1..MaxStops : StopResume(j)
  \/ \E p \in Processors : OnAudioProcess(p)
  \/ FrameTick
  \/ \E c \in Chunks : Deliver(c)

SpecMedia == Init /\ [][NextMedia]_vars

\* the microphone button, rendered in the controls of a connected session:
\* setIsMicMuted(!isMicMuted)
ToggleMicMuted ==
  /\ connectionState = "connected"
  /\ isMicMuted' = ~isMicMuted
  /\ Commit(Cur)
  /\ UNCHANGED <<transcriptVars, replayVars, toolVars, qualityVars, timeoutVars, starts,
                 switches, playbackVars, sendVars>>

\* sessions in which the microphone is muted and unmuted while audio blocks are captured
NextMute ==
  \/ StartButton
  \/ \E k \in 1..MaxStarts, ok \in BOOLEAN : StartGotMedia(k, ok)
  \/ \E k \in 1..MaxStarts, ok \in BOOLEAN : StartPlayed(k, ok)
  \/ \E k \in 1..MaxStarts : OnOpen(k)
  \/ \E k \in 1..MaxStarts : OnClose(k)
  \/ ToggleMicMuted
  \/ \E p \in Processors : OnAudioProcess(p)
  \/ StopSession
  \/ \E j \in 1..MaxStops : StopResume(j)

SpecMute == Init /\ [][NextMute]_vars

\* sessions whose channel keeps delivering transcriptions while the session is saved and
\* stopped
NextPersist ==
  \/ Tick
  \/ StartButton
  \/ \E k \in 1..MaxStarts, ok \in BOOLEAN : StartGotMedia(k, ok)
  \/ \E k \in 1..MaxStarts, ok \in BOOLEAN : StartPlayed(k, ok)
  \/ \E k \in 1..MaxStarts : OnOpen(k)
  \/ \E k \in 1..MaxStarts : OnClose(k)
  \/ \E k \in 1..MaxStarts, msg \in ReplyMsgs : OnMessage(k, msg)
  \/ SaveButton
  \/ StopSession
  \/ \E j \in 1..MaxStops : StopResume(j)

SpecPersist == Init /\ [][NextPersist]_vars

\* sessions that start without failure, with transcriptions, turn-complete events and user
\* text turns
NextTurns ==
  \/ StartButton
  \/ \E k \in 1..MaxStarts : StartGotMedia(k, TRUE)
  \/ \E k \in 1..MaxStarts : StartPlayed(k, TRUE)
  \/ \E k \in 1..MaxStarts : OnOpen(k)
  \/ \E k \in 1..MaxStarts : OnClose(k)
  \/ \E k \in 1..MaxStarts, msg \in TextMsgs : OnMessage(k, msg)
  \/ \E shown \in Deltas \ {<<>>} : handleSendMessage(shown, FALSE)

SpecTurns == Init /\ [][NextTurns]_vars

\* the same sessions with the wall clock advancing between the handler runs
NextIds ==
  \/ Tick
  \/ NextTurns

SpecIds == Init /\ [][NextIds]_vars

\* startSession, stopSession and handleSendMessage called in any state, as the operations
\* start(), stop() and sendText() of the session
NextOperations ==
  \/ Tick
  \/ startSession
  \/ \E k \in 1..MaxStarts, ok \in BOOLEAN : StartGotMedia(k, ok)
  \/ \E k \in 1..MaxStarts, ok \in BOOLEAN : StartPlayed(k, ok)
  \/ \E k \in 1..MaxStarts : OnOpen(k)
  \/ \E k \in 1..MaxStarts, msg \in ReplyMsgs : OnMessage(k, msg)
  \/ StopCall
  \/ \E j \in 1..MaxStops : StopResume(j)

SpecOperations == Init /\ [][NextOperations]_vars

NextCapture ==
  \/ StartButton
  \/ \E k \in 1..MaxStarts, ok \in BOOLEAN : StartGotMedia(k, ok)
  \/ \E k \in 1..MaxStarts, ok \in BOOLEAN : StartPlayed(k, ok)
  \/ \E k \in 1..MaxStarts : OnOpen(k)
  \/ \E k \in 1..MaxStarts : OnClose(k)
  \/ \E k \in 1..MaxStarts : OnError(k)
  \/ DismissError
  \/ switchCamera
  \/ \E i \in 1..MaxStreams, ok \in BOOLEAN : SwitchResume(i, ok)
  \/ StopSession
  \/ \E j \in 1..MaxStops : StopResume(j)

SpecCapture == Init /\ [][NextCapture]_vars

NextMerge ==
  \/ Tick
  \/ \E role \in Roles, text \in Deltas, isFinal \in BOOLEAN : Feed(role, text, isFinal)

SpecMerge == Init /\ [][NextMerge]_vars

NextReplay ==
  \/ Tick
  \/ TickReplay
  \/ \E role \in Roles, text \in Deltas, isFinal \in BOOLEAN : FeedBoth(role, text, isFinal)

SpecReplay == Init /\ [][NextReplay]_vars

(* ------------------------------- claims -------------------------------- *)
\* log is prev with nothing changed in its first n messages
SamePrefix(log, prev, n) == Len(log) >= n /\ Len(prev) >= n /\ \A i \in 1..n : log[i] = prev[i]

\* the last message of prev is the append target for a delta of that role
OpenFor(prev, role) ==
  Len(prev) > 0 /\ prev[Len(prev)].role = role /\ ~prev[Len(prev)].isComplete

\* C4: updateTranscript(role, delta, isFinal) follows the merge rule: an open last
\* message of the same role gets text+delta and isComplete=isFinal and nothing else
\* changes; otherwise a non-empty delta appends exactly one new message (role, delta,
\* isFinal) at the end; otherwise the log is unchanged.
C4_MergeRule ==
  lastCall.role # "none" =>
    LET prev == lastCall.prev
        n == Len(prev)
    IN IF OpenFor(prev, lastCall.role)
       THEN /\ Len(messages) = n
            /\ SamePrefix(messages, prev, n - 1)
            /\ messages[n] = [id |-> prev[n].id, role |-> prev[n].role,
                               text |-> prev[n].text \o lastCall.text,
                               isComplete |-> lastCall.isFinal, timestamp |-> prev[n].timestamp]
       ELSE IF lastCall.text # <<>>
       THEN /\ Len(messages) = n + 1
            /\ SamePrefix(messages, prev, n)
            /\ messages[n + 1].role = lastCall.role
            /\ messages[n + 1].text = lastCall.text
            /\ messages[n + 1].isComplete = lastCall.isFinal
       ELSE messages = prev

\* C4 witness: a delta was appended in place to an open message that follows another message
C4_Witness ==
  /\ lastCall.role # "none"
  /\ OpenFor(lastCall.prev, lastCall.role)
  /\ lastCall.text # <<>>
  /\ Len(messages) >= 2

\* the two logs hold the same messages with the same texts
SameList(l1, l2) ==
  /\ Len(l1) = Len(l2)
  /\ \A i \in 1..Len(l1) :
       l1[i].role = l2[i].role /\ l1[i].text = l2[i].text /\ l1[i].isComplete = l2[i].isComplete

\* C5 as stated: applying the same tuple (role, delta, isFinal=true) twice in a row
\* yields the same message list as applying it once.
C5_ReplayFinalSameList ==
  (lastCall.repeated /\ lastCall.isFinal) => SameList(messages, lastCall.prev)

\* C5 amended: the second application of a final tuple leaves every message of the
\* once-list unchanged and, when delta is non-empty, appends one more complete message
\* (role, delta); the lists are equal only for an empty delta.
C5_ReplayFinalAppends ==
  (lastCall.repeated /\ lastCall.isFinal) =>
    IF lastCall.text = <<>>
    THEN messages = lastCall.prev
    ELSE /\ Len(messages) = Len(lastCall.prev) + 1
         /\ SamePrefix(messages, lastCall.prev, Len(lastCall.prev))
         /\ messages[Len(messages)].role = lastCall.role
         /\ messages[Len(messages)].text = lastCall.text
         /\ messages[Len(messages)].isComplete

\* C5 witness: a non-empty final tuple was applied twice in a row, the first time in place
C5_Witness ==
  /\ lastCall.repeated /\ lastCall.isFinal /\ lastCall.text # <<>>
  /\ Len(messages) >= 2
  /\ Len(messages[Len(messages) - 1].text) >= 2

Played == {played[i] : i \in 1..Len(played)}

\* x and y are buffers of consecutive audio events: no audio event between them was
\* started or is still being decoded
Consecutive(x, y) ==
  /\ x.arr < y.arr
  /\ ~\E z \in Played : x.arr < z.arr /\ z.arr < y.arr
  /\ ~\E h \in decoding : x.arr < h.arr /\ h.arr < y.arr

\* C1: for inbound audio buffers with no interruption in between, the start time of
\* buffer i is >= the start time of buffer i-1 plus its duration, and equals it whenever
\* the output clock had not passed the cursor when buffer i arrived.
C1_NoOverlapNoGap ==
  \A x, y \in Played :
    (Consecutive(x, y) /\ x.arrEpoch = y.epoch) =>
      /\ y.start >= x.start + x.duration
      /\ (y.arrClock <= y.arrCursor => y.start = x.start + x.duration)

\* C2: the first audio buffer that arrives after an interruption was handled is started
\* at the output clock's reading on its arrival.
C2_StartsNowAfterInterrupt ==
  \A y \in Played : y.first => y.start = y.arrClock

\* C3: handling an interruption empties the active set and sets nextStartTime to 0, and
\* no audio buffer whose event arrived before the interruption is started afterwards.
C3_InterruptFlushes ==
  /\ lastDone = "interrupted" => (activeSourcesRef = {} /\ nextStartTimeRef = 0)
  /\ \A y \in Played : y.epoch = y.arrEpoch

\* C31: every audio buffer is started at the value its handler read on arrival (the
\* larger of the cursor and the output clock), and no interruption was handled between
\* that read and the start: no other handler ran between the read and the write.
C31_CursorStepAtomic ==
  \A y \in Played :
    /\ y.start = Max(y.arrCursor, y.arrClock)
    /\ y.arrEpoch = y.epoch

\* C32: audio buffers are scheduled in the order their events arrived, at start times
\* that do not decrease in that order.
C32_ArrivalOrder ==
  \A i, j \in 1..Len(played) :
    played[i].arr < played[j].arr => (i < j /\ played[i].start <= played[j].start)

\* the pending timeouts that clear the highlight flag, and those that clear the blur flag
ScannerTimeouts == {t \in timeouts : t.clears = "scanner"}
BlurTimeouts == {t \in timeouts : t.clears = "blur"}

\* the step is the firing of a timeout set for the flag
Fired(flag) ==
  \E t \in timeouts : t.clears = flag /\ t.left = 0 /\ timeouts' = timeouts \ {t}

\* C33: the firing of the highlight timeout changes neither the blur flag nor the stored
\* insight values, the firing of the blur timeout changes neither the highlight flag nor
\* the stored insight values, and a run of the insight effect that does not arm one of
\* the two timers leaves that timer's pending timeouts and its flag as they were.
C33_TimersIndependent ==
  [][/\ Fired("scanner") => (showBlurWarning' = showBlurWarning /\ insightData' = insightData)
     /\ Fired("blur") => (scannerActive' = scannerActive /\ insightData' = insightData)
     /\ (timeoutSeq' # timeoutSeq /\ blurTimeoutRef' = blurTimeoutRef) =>
          (BlurTimeouts' = BlurTimeouts /\ showBlurWarning' = showBlurWarning)
     /\ (timeoutSeq' # timeoutSeq /\ scannerTimeoutRef' = scannerTimeoutRef) =>
          (ScannerTimeouts' = ScannerTimeouts /\ scannerActive' = scannerActive)]_vars

\* C33 witness: the blur timeout has just fired, six seconds after the last blur match,
\* while the highlight flag is raised with its timeout pending and a topic is stored
C33_Witness ==
  /\ blurTimeoutRef # 0 /\ BlurTimeouts = {} /\ sinceBlur = BlurDelay
  /\ ~showBlurWarning
  /\ scannerActive /\ ScannerTimeouts # {}
  /\ insightData.knowledge # <<>>

\* C34: at most one blur timeout is pending; while the blur flag is raised the pending
\* blur timeout is the one of the most recent match, due six seconds after it; and a
\* blur timeout that fires while the flag is raised fires six seconds after that match.
C34_BlurTimerResets ==
  /\ [](Cardinality(BlurTimeouts) <= 1)
  /\ [](showBlurWarning => \E t \in BlurTimeouts : t.left = BlurDelay - sinceBlur)
  /\ [][(Fired("blur") /\ showBlurWarning) => sinceBlur = BlurDelay]_vars

\* C34 witness: the blur pattern has matched at least twice, the second match while the
\* timeout of the first was pending one second old, and the flag was cleared by the
\* timeout of the last match
C34_Witness ==
  /\ blurTimeoutRef >= 2 /\ timeoutSeq = blurTimeoutRef /\ scannerTimeoutRef = 0
  /\ BlurTimeouts = {} /\ sinceBlur = BlurDelay
  /\ ~showBlurWarning
  /\ connectionState = "connected"

\* a capture track that was acquired and not stopped
LiveTracks == {i \in 1..Len(streams) : streams[i].audio = "live" \/ streams[i].video = "live"}

\* C21: an audio payload that does not decode is never started, handling it leaves the
\* connection state as it was, and every buffer whose event arrives after it is started
\* at the time it is started at in the same run without that payload.
C21_DecodeFailureHarmless ==
  /\ [](\A y \in Played : y.duration >= 0)
  /\ [][malformed' > malformed => connectionState' = connectionState]_vars
  /\ [](\A y \in Played : (y.afterBad /\ y.bad = 1) => y.start = y.without)

\* the function responses of the last tool-call event that carry the id
ResponsesFor(id) == {i \in 1..Len(lastTool.responses) : lastTool.responses[i].id = id}

\* C22: for every tool-call event, each function call in it has exactly one function
\* response with its id among those handed to the session of the channel the event came
\* on, and a call of a name that is not declared is answered "Function not implemented".
C22_OneResultPerInvocation ==
  /\ \A i \in 1..Len(lastTool.calls) :
       /\ Cardinality(ResponsesFor(lastTool.calls[i].id)) = 1
       /\ lastTool.calls[i].name # "draw_diagram" =>
            \A j \in ResponsesFor(lastTool.calls[i].id) :
              lastTool.responses[j].response.text = "Function not implemented"
  /\ \A j \in 1..Len(lastTool.responses) :
       \E i \in 1..Len(lastTool.calls) : lastTool.calls[i].id = lastTool.responses[j].id
  /\ lastTool.calls # <<>> => starts[lastTool.chan].opened

\* C22 witness: an event with a declared and an undeclared call was answered on the
\* channel of a second session
C22_Witness ==
  /\ lastTool.chan = 2 /\ Len(lastTool.calls) = 2
  /\ lastTool.calls[1].name = "get_weather" /\ lastTool.calls[2].name = "draw_diagram"
  /\ Len(lastTool.responses) = 2

\* the arguments satisfy the declared schema: the required title and shapes are there
ValidArgs(args) == args.title /\ args.shapes

\* C23: a draw_diagram call whose arguments do not satisfy the declared schema is
\* answered with an error payload and its arguments are not shown on the diagram board;
\* handling a tool-call event leaves the connection state and the channel as they were.
C23_InvalidArgsRejected ==
  /\ [](\A i \in 1..Len(lastTool.calls) :
         (lastTool.calls[i].name = "draw_diagram" /\ ~ValidArgs(lastTool.calls[i].args)) =>
           /\ \A j \in ResponsesFor(lastTool.calls[i].id) :
                lastTool.responses[j].response.kind = "error"
           /\ diagramData # <<lastTool.calls[i].args>>)
  /\ [][lastTool' # lastTool => (connectionState' = connectionState /\ starts' = starts)]_vars

\* the tier of the threshold table for a downlink in tenths of Mb/s and an rtt in ms
TierOf(downlink, rtt) ==
  IF downlink < 15 \/ rtt > 500 THEN "poor"
  ELSE IF downlink < 50 \/ rtt > 150 THEN "moderate"
  ELSE "good"

\* the frame rate (half frames per second) and compression (hundredths) of a tier
TierRate(tier) == CASE tier = "poor" -> 1 [] tier = "moderate" -> 3 [] tier = "good" -> 5
TierCompression(tier) ==
  CASE tier = "poor" -> 40 [] tier = "moderate" -> 50 [] tier = "good" -> 65

\* the quality state is that of the threshold table for the reported (downlink, rtt);
\* (1.0, 100) gives poor, 0.5 and 0.4, and (10, 50) gives good, 2.5 and 0.65
Mapped ==
  /\ networkStatus = TierOf(connection[1], connection[2])
  /\ videoFrameRate = TierRate(networkStatus)
  /\ videoQuality = TierCompression(networkStatus)
  /\ connection = <<10, 100>> =>
       (networkStatus = "poor" /\ videoFrameRate = 1 /\ videoQuality = 40)
  /\ connection = <<100, 50>> =>
       (networkStatus = "good" /\ videoFrameRate = 5 /\ videoQuality = 65)

\* C24: whenever the controller maps telemetry - on mount, on a change event handled with
\* automatic quality on, and when automatic quality is turned on - the network status,
\* frame rate and compression it leaves are those of the threshold table for the
\* reported (downlink, rtt), and while automatic quality is on the status stays that one.
C24_TierByThresholds ==
  /\ (isAutoQuality /\ connection # <<>>) => Mapped
  /\ []((isAutoQuality /\ connection # <<>>) =>
          networkStatus = TierOf(connection[1], connection[2]))
  /\ [][(/\ isAutoQuality' /\ connection' # <<>>
         /\ (connection' # connection \/ ~isAutoQuality)) => Mapped']_vars

\* C24 witness: a change event reporting downlink 1.5 and rtt 500, both on a threshold,
\* was handled with automatic quality on
C24_Witness ==
  /\ lastDone = "quality" /\ isAutoQuality
  /\ connection = <<15, 500>> /\ networkStatus = "moderate"

\* C35: in every state whose network status is good, moderate or poor, the frame rate and
\* the compression are those of the status's row of the lookup.
C35_TierRowHeld ==
  networkStatus \in {"good", "moderate", "poor"} =>
    (videoFrameRate = TierRate(networkStatus) /\ videoQuality = TierCompression(networkStatus))

\* the (frame rate, compression) pairs of the tier lookup
TierPairs == {<<TierRate(tier), TierCompression(tier)>> : tier \in {"poor", "moderate", "good"}}

\* C25: every step that changes the frame rate or the compression leaves them a pair of
\* the tier lookup.
C25_RateAndCompressionPaired ==
  [][(videoFrameRate' # videoFrameRate \/ videoQuality' # videoQuality) =>
       <<videoFrameRate', videoQuality'>> \in TierPairs]_vars

\* C26: without a connection-information object, or with automatic quality off, the
\* network status is unknown and the state is never error; and the step that turns
\* automatic quality off leaves the frame rate and the compression at the fallback values
\* 2 FPS and 0.6, whatever the tier was.
C26_FallbackWhenNoTelemetry ==
  /\ []((connection = <<>> \/ ~isAutoQuality) =>
          (networkStatus = "unknown" /\ connectionState # "error"))
  /\ [][(isAutoQuality /\ ~isAutoQuality') =>
          (videoFrameRate' = QualityDefaults.videoFrameRate /\
           videoQuality' = QualityDefaults.videoQuality)]_vars

\* C27: a step that changes the frame rate or the compression while the state is
\* connected leaves exactly one frame interval armed, with period 1000/frameRate ms and
\* the new compression (the interval armed before is cleared), and leaves the state
\* connected and every channel as it was.
C27_CadenceRestarts ==
  [][(connectionState = "connected" /\
      (videoFrameRate' # videoFrameRate \/ videoQuality' # videoQuality)) =>
       /\ frameTimers' = {[chan |-> frameIntervalRef', period |-> Period(videoFrameRate'),
                           quality |-> videoQuality']}
       /\ frameIntervalRef' # 0
       /\ connectionState' = "connected"
       /\ starts' = starts]_vars

\* C28: in every state isBotSpeaking is true exactly when the active set holds a source.
C28_SpeakingIffActive == isBotSpeaking <=> activeSourcesRef # {}

\* C29: when a stopSession call has run to its end the active set is empty, the timeline
\* cursor is zero and the output audio context is closed and let go of.
C29_StopFlushes ==
  lastDone = "stop" =>
    (activeSourcesRef = {} /\ nextStartTimeRef = 0 /\ outputContextRef = "null")

\* the entries of the store that were created in the session running now
EntriesOfSession == {i \in 1..Len(history) : history[i].session = Len(starts)}

\* C30: right after a save made with a non-empty log (the save button, or the save at the
\* end of stopSession) the store holds exactly one entry of the session, and the messages
\* of that entry are the current log
C30_OneEntryPerSession ==
  (lastDone \in {"save", "stop"} /\ messages # <<>>) =>
    /\ Cardinality(EntriesOfSession) = 1
    /\ \A i \in EntriesOfSession : history[i].messages = messages

\* the entries of a list of saved sessions whose id is not the given one
Without(sessions, id) == SelectSeq(sessions, LAMBDA e : e.id # id)

\* C36: a step that deletes a row of the history list removes from the store the entries
\* of that row's id and no other entry.
C36_DeleteOnlyThatEntry ==
  [][(viewMode = "history_list" /\ viewMode' = "history_list" /\
      savedSessions' # savedSessions) =>
       \E i \in 1..Len(savedSessions) :
         /\ savedSessions' = Without(savedSessions, savedSessions[i].id)
         /\ history' = Without(history, savedSessions[i].id)]_vars

\* the processors that capture the microphone for the channel the session holds
SessionProcessors == {p \in micProcessors : p.chan = sessionPromiseRef}

\* C37: no audio block is handed to the channel of a connected session while the
\* microphone-mute flag is on, and while the flag is off the processor of a connected
\* session sends the blocks it captures.
C37_MuteStopsAudio ==
  /\ (lastSent.kind = "audio" /\ lastSent.state = "connected") => ~lastSent.muted
  /\ (connectionState = "connected" /\ ~isMicMuted) =>
       \A p \in SessionProcessors : ENABLED OnAudioProcess(p)

\* log is prev with text appended to its last message and nothing else changed
Accumulated(log, prev, text) ==
  /\ Len(log) = Len(prev)
  /\ \A i \in 1..(Len(prev) - 1) : log[i] = prev[i]
  /\ log[Len(prev)] = [prev[Len(prev)] EXCEPT !.text = @ \o text]

\* C39: a turn-complete event does not change the message log: a step that removes a
\* message, changes the isComplete of one or adds a complete one is not the handling of
\* an inbound event, and a step that changes the log is not the handling of an event
\* without transcription. So no agent message is ever complete, an open
\* message becomes complete only by a user text turn merged into it (a user message), and
\* an agent delta that follows a turn-complete event while the last message is an agent
\* message is appended to that message.
C39_TurnCompleteKeepsLog ==
  /\ [][~(/\ Len(messages') >= Len(messages)
          /\ \A i \in 1..Len(messages) : messages'[i].isComplete = messages[i].isComplete
          /\ \A i \in (Len(messages) + 1)..Len(messages') : ~messages'[i].isComplete)
          => \A k \in 1..MaxStarts, msg \in TextMsgs : ~OnMessage(k, msg)]_vars
  /\ [][messages' # messages
          => \A k \in 1..MaxStarts, msg \in TextMsgs :
               (msg.inputTranscription = <<>> /\ msg.outputTranscription = <<>>)
                 => ~OnMessage(k, msg)]_vars
  /\ [](\A i \in 1..Len(messages) : messages[i].role = "model" => ~messages[i].isComplete)
  /\ [][\A i \in 1..Len(messages) :
          (i <= Len(messages') /\ ~messages[i].isComplete /\ messages'[i].isComplete)
            => /\ messages[i].role = "user" /\ i = Len(messages)
               /\ lastCall'.role = "user" /\ lastCall'.isFinal
               /\ lastCall'.prev = messages]_vars
  /\ [][(/\ lastCall'.prev # lastCall.prev /\ lastCall'.afterTurn /\ lastCall'.role = "model"
          /\ Len(lastCall'.prev) > 0 /\ lastCall'.prev[Len(lastCall'.prev)].role = "model")
            => Accumulated(messages', lastCall'.prev, lastCall'.text)]_vars

\* C39 witness: after a user message, an agent message got the delta of a second turn, the
\* turn-complete event of the first having been handled, and a turn-complete event was
\* handled after that delta too; both messages are open
C39_Witness ==
  /\ lastCall.role = "model" /\ lastCall.afterTurn /\ lastCall.ended
  /\ Len(lastCall.prev) = 2
  /\ lastCall.prev[1].role = "user" /\ lastCall.prev[2].role = "model"
  /\ Accumulated(messages, lastCall.prev, lastCall.text)
  /\ Len(messages[2].text) >= 2
  /\ ~messages[1].isComplete /\ ~messages[2].isComplete

\* C40: the messages of the log have pairwise distinct ids, whatever inbound events and
\* user text turns made them.
C40_DistinctIds ==
  \A i, j \in 1..Len(messages) : i # j => messages[i].id # messages[j].id

\* the entries the stopSession call that ended last has to have written: the one of the
\* session id it was called with, or with no id the one it put in front of the store
StopWritten ==
  IF lastStop.sessionId # <<>>
  THEN {i \in 1..Len(history) : history[i].id = lastStop.sessionId}
  ELSE {i \in 1..Len(history) : i = 1 /\ Len(history) = Len(lastStop.history) + 1}

\* C38: when a stopSession call that was made on a non-empty log has run to its end, the
\* store holds the entry of the session id the call was made with (a new entry in front
\* when it was made with none), and the messages of that entry are the log as it was
\* when the call was made.
C38_StopSavesLogAtCall ==
  (lastDone = "stop" /\ lastStop.currentMessages # <<>>) =>
    /\ StopWritten # {}
    /\ \A i \in StopWritten : history[i].messages = lastStop.currentMessages

\* C10: after stop() completes, no capture track acquired for the session - by start()
\* or by a camera switch made while connected - is still live.
C10_NoLiveTrackAfterStop == lastDone = "stop" => LiveTracks = {}

C7_CompleteIsImmutable ==
  [][Len(starts') = Len(starts) =>
       \A i \in 1..Len(messages) :
         messages[i].isComplete => (Len(messages') >= i /\ messages'[i] = messages[i])]_vars

\* C7 witness: a non-empty user delta arrived when the last message was a complete user message
C7_Witness ==
  /\ lastCall.role = "user" /\ lastCall.text # <<>> /\ ~lastCall.isFinal
  /\ Len(lastCall.prev) >= 1
  /\ lastCall.prev[Len(lastCall.prev)].role = "user"
  /\ lastCall.prev[Len(lastCall.prev)].isComplete

OpenOf(log, role) == {i \in 1..Len(log) : log[i].role = role /\ ~log[i].isComplete}

\* C8: the log holds at most one message with isComplete=false per role, and a delta of
\* a role that has an open message is appended to it, never to a new message.
C8_OneOpenPerRole ==
  /\ \A role \in Roles : Cardinality(OpenOf(messages, role)) <= 1
  /\ (lastCall.role # "none" /\ OpenOf(lastCall.prev, lastCall.role) # {}) =>
       Len(messages) = Len(lastCall.prev)

\* C9: every message in the log has non-empty text, and an empty delta never creates
\* a message.
C9_NoEmptyMessage ==
  /\ \A i \in 1..Len(messages) : messages[i].text # <<>>
  /\ (lastCall.role # "none" /\ lastCall.text = <<>>) => Len(messages) = Len(lastCall.prev)

\* C9 witness: an empty delta arrived when the last message was not its append target
C9_Witness ==
  /\ lastCall.role # "none" /\ lastCall.text = <<>>
  /\ Len(lastCall.prev) >= 1
  /\ ~OpenFor(lastCall.prev, lastCall.role)

Released(k) ==
  starts[k].stream = 0 \/
    (streams[starts[k].stream].audio # "live" /\ streams[starts[k].stream].video # "live")

OpenedNow == \E k \in 1..Len(starts) : ~starts[k].opened /\ starts'[k].opened

\* C14: the state becomes connected only in the step that handles an open event; a
\* microphone processor is wired and the frame timer is armed only in such a step; and
\* every audio or image chunk handed to a channel is handed after that channel's open
\* event.
C14_MediaOnlyAfterOpen ==
  [][/\ (connectionState' = "connected" /\ connectionState # "connected") => OpenedNow
     /\ ~(micProcessors' \subseteq micProcessors) => OpenedNow
     /\ (frameIntervalRef' # 0 /\ frameIntervalRef' # frameIntervalRef) => OpenedNow
     /\ (lastSent' # lastSent /\ lastSent'.kind \in {"audio", "image"}) =>
          starts[lastSent'.chan].opened]_vars

\* C14 witness: in a second session both an image chunk is on its way and an audio chunk
\* was handed to the channel
C14_Witness ==
  /\ lastSent.kind = "audio" /\ lastSent.chan = 2 /\ lastSent.state = "connected"
  /\ [kind |-> "image", chan |-> 2] \in pending

\* C15: no audio or image chunk is handed to a channel that has not closed while the
\* state is not connected.
C15_NoMediaUnlessConnected ==
  (lastSent.kind \in {"audio", "image"} /\ lastSent.chanState = "open") =>
    lastSent.state = "connected"

\* C16: a complete user turn is appended to the message log, and a text is handed to
\* the session or queued for it, only by a handleSendMessage call made in state connected.
C16_SendTextOnlyConnected ==
  [][/\ (lastCall' # lastCall /\ lastCall'.isFinal) => connectionState = "connected"
     /\ (lastSent' # lastSent /\ lastSent'.kind = "text" /\ pending' = pending) =>
          connectionState = "connected"
     /\ (\E c \in pending' \ pending : c.kind = "text") => connectionState = "connected"]_vars

\* C17: connecting is entered only by a startSession call and never from connected;
\* connected is entered only from connecting; from error the state becomes connecting or
\* connected only by a startSession call.
C17_StateMachineEdges ==
  [][/\ (connectionState' = "connecting" /\ connectionState # "connecting") =>
          (Len(starts') > Len(starts) /\ connectionState # "connected")
     /\ (connectionState' = "connected" /\ connectionState # "connected") =>
          connectionState = "connecting"
     /\ (connectionState = "error" /\ connectionState' \in {"connecting", "connected"}) =>
          Len(starts') > Len(starts)]_vars

\* the channels that are open
OpenChannels == {k \in 1..Len(starts) : starts[k].chan = "open"}

\* C18: at most one channel is open at any moment, and when a stopSession call has run to
\* its end no channel is open or opening.
C18_OneChannelClosedByStop ==
  /\ Cardinality(OpenChannels) <= 1
  /\ lastDone = "stop" => \A k \in 1..Len(starts) : starts[k].chan \notin {"connecting", "open"}

\* C19: when the state is error and no stopSession call is still running, no capture
\* track is live, the frame timer is not armed and the playback active set is empty.
C19_ErrorCleansUp ==
  (connectionState = "error" /\ stops = <<>>) =>
    (LiveTracks = {} /\ frameIntervalRef = 0 /\ activeSourcesRef = {})

\* C20: the step in which getUserMedia fails inside startSession sets the error text,
\* leaves the state other than connected and opens no channel; and that startSession
\* call never has a channel, so no open event of it is ever handled.
C20_MediaFailureNoChannel ==
  /\ [][\A k \in 1..Len(starts) :
          (starts[k].pc = "getUserMedia" /\ starts'[k].pc = "failed") =>
            (error' /\ connectionState' # "connected" /\ starts'[k].chan = "none")]_vars
  /\ [](\A k \in 1..Len(starts) :
          (starts[k].pc = "failed" /\ starts[k].stream = 0) =>
            (starts[k].chan = "none" /\ ~starts[k].opened))

\* C20 witness: getUserMedia has failed in the startSession call of a second session and
\* the error is shown
C20_Witness ==
  /\ Len(starts) = 2 /\ starts[2].pc = "failed" /\ starts[2].stream = 0
  /\ starts[1].opened
  /\ error

====
